---- MODULE Spec2Model ----
(***************************************************************************)
(* A model of openapi-mcp: the spec cache, the SpecService singleton with  *)
(* its asynchronous loadSpec, the normalizer that builds a ParsedSpec, the *)
(* accessors and tool handlers built on them, and the sample generator.    *)
(*                                                                         *)
(* Representation.  JavaScript strings are TLA+ strings (\o, Len and       *)
(* SubSeq act on them character by character).  A JavaScript object or Map *)
(* whose iteration order matters is a sequence of <<key, value>> pairs.  A *)
(* record field that JavaScript would leave undefined is simply absent     *)
(* from the record's DOMAIN.  JSON values are tagged records: [str |-> s], *)
(* [num |-> n], [bool |-> b], [null |-> TRUE], [arr |-> seq],              *)
(* [obj |-> seq of pairs].                                                 *)
(***************************************************************************)
EXTENDS Integers, Sequences, FiniteSets, TLC

VARIABLES
    currentSpec,   \* SpecService.currentSpec: JsNull or a ParsedSpec
    cache,         \* SpecCache.cache: key -> [spec, expiresAt]
    now,           \* Date.now(), in ms since the process started
    calls,         \* the loadSpec invocations that wait for the load collaborator
    loaderCalls,   \* how often loadAndDereferenceSpec has been invoked
    loadedOk,      \* history: a loadSpec completed with success since start / the last clear()
    written,       \* history: key -> the latest set of the key, unless invalidated or cleared since
    sampled,       \* history: the first sample generation, with its arguments and its result
    last,          \* the operation applied last, with its arguments and its result
    validatorCache, \* the validator's map from a schema's serialization to its evaluator
    compiled       \* history: the schemas compiled since the last clearValidatorCache

vars == <<currentSpec, cache, now, calls, loaderCalls, loadedOk, written, sampled, last,
          validatorCache, compiled>>

validatorVars == <<validatorCache, compiled>>

-----------------------------------------------------------------------------
(* Bounds of the model *)

MaxCalls == 2     \* loadSpec invocations that may be in flight together
MaxLoads == 2     \* invocations of the load collaborator in one behaviour
MaxTicks == 2     \* clock advances in one behaviour
MaxResponses == 3     \* status keys an operation's responses object declares
MaxMediaTypes == 2    \* media types a content object declares

-----------------------------------------------------------------------------
(* JavaScript values *)

JsNull == [null |-> TRUE]

Has(r, f) == f \in DOMAIN r

IsNull(v) == Has(v, "null")

Min(a, b) == IF a <= b THEN a ELSE b

Max(a, b) == IF a >= b THEN a ELSE b

Range(s) == {s[i] : i \in 1..Len(s)}

-----------------------------------------------------------------------------
(* Strings *)

UpperLetters == "ABCDEFGHIJKLMNOPQRSTUVWXYZ"

LowerLetters == "abcdefghijklmnopqrstuvwxyz"

Digits == "0123456789"

CharAt(s, i) == SubSeq(s, i, i)

IndexIn(c, alphabet) ==
    IF \E j \in 1..Len(alphabet) : CharAt(alphabet, j) = c
    THEN CHOOSE j \in 1..Len(alphabet) : CharAt(alphabet, j) = c
    ELSE 0

\* the position of the first c in s, 0 if there is none
FirstIndexOf(s, c) ==
    IF \E i \in 1..Len(s) : CharAt(s, i) = c
    THEN CHOOSE i \in 1..Len(s) : CharAt(s, i) = c /\ \A j \in 1..(i - 1) : CharAt(s, j) # c
    ELSE 0

\* the number of leading characters of s that are in alphabet
PrefixIn(s, alphabet) ==
    IF \E i \in 1..Len(s) : IndexIn(CharAt(s, i), alphabet) = 0
    THEN (CHOOSE i \in 1..Len(s) : /\ IndexIn(CharAt(s, i), alphabet) = 0
                                   /\ \A j \in 1..(i - 1) : IndexIn(CharAt(s, j), alphabet) # 0) - 1
    ELSE Len(s)

IsDigit(c) == IndexIn(c, Digits) > 0

RECURSIVE MapChars(_, _, _)
MapChars(s, from, to) ==
    IF s = "" THEN ""
    ELSE LET c == CharAt(s, 1)
             j == IndexIn(c, from)
         IN  (IF j > 0 THEN CharAt(to, j) ELSE c) \o MapChars(Tail(s), from, to)

toLowerCase(s) == MapChars(s, UpperLetters, LowerLetters)

toUpperCase(s) == MapChars(s, LowerLetters, UpperLetters)

startsWith(s, prefix) ==
    Len(s) >= Len(prefix) /\ SubSeq(s, 1, Len(prefix)) = prefix

includes(s, part) ==
    \E i \in 1..(Len(s) - Len(part) + 1) : SubSeq(s, i, i + Len(part) - 1) = part

-----------------------------------------------------------------------------
(* Ordered maps: a JavaScript Map, or an object walked with Object.entries *)

MapHas(m, k) == \E i \in 1..Len(m) : m[i][1] = k

MapIndex(m, k) == CHOOSE i \in 1..Len(m) : m[i][1] = k

MapGet(m, k) == m[MapIndex(m, k)][2]

\* Map.prototype.set: an existing key keeps its place, a new key goes last
MapSet(m, k, v) ==
    IF MapHas(m, k)
    THEN [m EXCEPT ![MapIndex(m, k)] = <<k, v>>]
    ELSE Append(m, <<k, v>>)

MapKeys(m) == [i \in 1..Len(m) |-> m[i][1]]

MapValues(m) == [i \in 1..Len(m) |-> m[i][2]]

RECURSIVE MapFromEntries(_, _)
MapFromEntries(entries, acc) ==
    IF entries = <<>> THEN acc
    ELSE MapFromEntries(Tail(entries), MapSet(acc, Head(entries)[1], Head(entries)[2]))

RECURSIVE SelectSeq2(_, _)
SelectSeq2(s, keep) ==
    IF s = <<>> THEN <<>>
    ELSE (IF Head(s) \in keep THEN <<Head(s)>> ELSE <<>>) \o SelectSeq2(Tail(s), keep)

\* An integer-like property name ("200", "404"): Object.entries lists these
\* first, in ascending numeric order, before the other keys in insertion order.
IsArrayIndex(k) ==
    /\ Len(k) >= 1
    /\ \A i \in 1..Len(k) : IsDigit(CharAt(k, i))
    /\ (Len(k) > 1 => CharAt(k, 1) # "0")

RECURSIVE StrToNat(_)
StrToNat(k) ==
    IF k = "" THEN 0
    ELSE 10 * StrToNat(SubSeq(k, 1, Len(k) - 1)) + (IndexIn(CharAt(k, Len(k)), Digits) - 1)

RECURSIVE SortIndexEntries(_)
SortIndexEntries(es) ==
    IF es = {} THEN <<>>
    ELSE LET lo == CHOOSE e \in es : \A f \in es : StrToNat(e[1]) <= StrToNat(f[1])
         IN  <<lo>> \o SortIndexEntries(es \ {lo})

\* Object.entries(o) of an object written with its properties in the order o
ObjectEntries(o) ==
    LET idx == {o[i] : i \in {j \in 1..Len(o) : IsArrayIndex(o[j][1])}}
        rest == {o[i] : i \in {j \in 1..Len(o) : ~IsArrayIndex(o[j][1])}}
    IN  SortIndexEntries(idx) \o SelectSeq2(o, rest)

-----------------------------------------------------------------------------
(* Errors: utils/errors *)

OpenAPIError(code, context) == [name |-> "OpenAPIError", code |-> code, context |-> context]

SpecNotLoadedError == [name |-> "OpenAPIError", code |-> "SPEC_NOT_LOADED"]

EndpointNotFoundError(path, method) ==
    OpenAPIError("ENDPOINT_NOT_FOUND", [path |-> path, method |-> method])

SpecLoadError(context) == OpenAPIError("SPEC_LOAD_ERROR", context)

\* An exception that is no OpenAPIError (a TypeError, say)
OtherError == [name |-> "Error"]

Throw(e) == [threw |-> e]

Return(v) == [ret |-> v]

Threw(r) == Has(r, "threw")

-----------------------------------------------------------------------------
(* utils/helpers *)

\* a method taken as it is written
normalizeMethodAsWritten(method) == method

normalizeMethod(method) == toLowerCase(method)

normalizePath(path) == IF startsWith(path, "/") THEN path ELSE "/" \o path

createEndpointKey(method, path) == normalizeMethod(method) \o " " \o normalizePath(path)

RECURSIVE MatchesPattern(_, _)
\* new RegExp("^" + pattern.replace(/X/g, "\\d") + "$").test(actual), for a
\* pattern made of letters and digits
MatchesPattern(actual, pattern) ==
    IF pattern = "" THEN actual = ""
    ELSE /\ actual # ""
         /\ IF CharAt(pattern, 1) = "X"
            THEN IsDigit(CharAt(actual, 1))
            ELSE CharAt(actual, 1) = CharAt(pattern, 1)
         /\ MatchesPattern(Tail(actual), Tail(pattern))

matchesStatusCode(actual, pattern) ==
    IF actual = pattern THEN TRUE
    ELSE IF includes(pattern, "X") THEN MatchesPattern(actual, pattern)
    ELSE FALSE

-----------------------------------------------------------------------------
(* The normalizer: openapi/extractor *)

EmptyObject == <<>>

\* the fields fs of record r that r has
Pick(r, fs) == [f \in (DOMAIN r) \cap fs |-> r[f]]

\* { f: v } when present, else nothing
Opt(present, f, v) == IF present THEN f :> v ELSE EmptyObject

OrElse(r, f, d) == IF Has(r, f) THEN r[f] ELSE d

\* r.f || d for a string field
StrOr(r, f, d) == IF Has(r, f) /\ r[f] # "" THEN r[f] ELSE d

isPlainObject(v) == ~IsNull(v)

HTTP_METHODS == <<"get", "post", "put", "patch", "delete", "options", "head", "trace">>

isSwagger2(doc) == Has(doc, "swagger") /\ doc.swagger = "2.0"

extractSpecInfo(doc) ==
    Pick(doc.info, {"title", "description", "version", "termsOfService", "contact", "license"})

extractServers(doc) ==
    IF isSwagger2(doc)
    THEN LET host == StrOr(doc, "host", "localhost")
             basePath == StrOr(doc, "basePath", "")
             schemes == OrElse(doc, "schemes", <<"https">>)
         IN  [i \in 1..Len(schemes) |->
                [url |-> schemes[i] \o "://" \o host \o basePath,
                 description |-> toUpperCase(schemes[i]) \o " server"]]
    ELSE LET servers == OrElse(doc, "servers", <<>>)
         IN  [i \in 1..Len(servers) |-> Pick(servers[i], {"url", "description", "variables"})]

toJsonSchema(r, f) == IF Has(r, f) THEN r[f] ELSE EmptyObject

isSwagger2Param(param) == isPlainObject(param) /\ Has(param, "type")

extractParameter(param) ==
    LET schema ==
            IF Has(param, "schema") THEN toJsonSchema(param, "schema")
            ELSE IF isSwagger2Param(param)
            THEN Pick(param, {"type", "format", "enum", "default", "minimum", "maximum", "items"})
            ELSE EmptyObject
    IN  [name |-> param.name,
         in |-> param.in,
         required |-> OrElse(param, "required", FALSE),
         deprecated |-> OrElse(param, "deprecated", FALSE),
         schema |-> schema,
         description |-> OrElse(param, "description", "")]
        @@ Opt(Has(param, "example"), "example", OrElse(param, "example", JsNull))

extractRequestBodyFromSwagger2(params) ==
    IF ~ \E i \in 1..Len(params) : params[i].in = "body" THEN EmptyObject
    ELSE LET bodyParam == params[CHOOSE i \in 1..Len(params) :
                                    /\ params[i].in = "body"
                                    /\ \A j \in 1..(i - 1) : params[j].in # "body"]
         IN  [required |-> OrElse(bodyParam, "required", FALSE),
              description |-> OrElse(bodyParam, "description", ""),
              content |-> <<<<"application/json", [schema |-> toJsonSchema(bodyParam, "schema")]>>>>]

extractExamples(examples) ==
    LET es == ObjectEntries(examples)
        kept == {es[i] : i \in {j \in 1..Len(es) : isPlainObject(es[j][2]) /\ Has(es[j][2], "value")}}
        ks == SelectSeq2(es, kept)
    IN  [i \in 1..Len(ks) |-> <<ks[i][1], Pick(ks[i][2], {"summary", "description", "value"})>>]

extractMediaType(mediaType) ==
    [schema |-> toJsonSchema(mediaType, "schema")]
    @@ Opt(Has(mediaType, "example"), "example", OrElse(mediaType, "example", JsNull))
    @@ Opt(Has(mediaType, "examples"), "examples",
           extractExamples(OrElse(mediaType, "examples", <<>>)))

extractContent(rawContent) ==
    LET es == ObjectEntries(rawContent)
    IN  MapFromEntries([i \in 1..Len(es) |-> <<es[i][1], extractMediaType(es[i][2])>>], <<>>)

extractRequestBodyFromV3(reqBody) ==
    [required |-> OrElse(reqBody, "required", FALSE),
     description |-> OrElse(reqBody, "description", ""),
     content |-> IF Has(reqBody, "content") THEN extractContent(reqBody.content) ELSE <<>>]

extractResponse(statusCode, response, isV2) ==
    LET content ==
            IF isV2
            THEN IF Has(response, "schema")
                 THEN <<<<"application/json",
                          [schema |-> toJsonSchema(response, "schema")]
                          @@ Opt(Has(response, "examples")
                                    /\ MapHas(response.examples, "application/json"),
                                 "example",
                                 IF Has(response, "examples")
                                       /\ MapHas(response.examples, "application/json")
                                 THEN MapGet(response.examples, "application/json")
                                 ELSE JsNull)>>>>
                 ELSE <<>>
            ELSE IF Has(response, "content") THEN extractContent(response.content) ELSE <<>>
    IN  [statusCode |-> statusCode,
         description |-> OrElse(response, "description", "")]
        @@ Opt(Len(content) > 0, "content", content)

\* a merge in which the path-level parameters come last and so win
paramMapPathLevelLast(pathParams, opParams) ==
    LET nonBodyParams == SelectSeq(opParams \o pathParams, LAMBDA p : p.in # "body")
    IN  MapFromEntries(
            [i \in 1..Len(nonBodyParams) |->
                <<nonBodyParams[i].in \o ":" \o nonBodyParams[i].name, nonBodyParams[i]>>],
            <<>>)

\* the map of the non-body parameters of an operation by `${in}:${name}`
paramMapOf(pathParams, opParams) ==
    LET allParams == pathParams \o opParams
        nonBodyParams == SelectSeq(allParams, LAMBDA p : p.in # "body")
    IN  MapFromEntries(
            [i \in 1..Len(nonBodyParams) |->
                <<nonBodyParams[i].in \o ":" \o nonBodyParams[i].name, nonBodyParams[i]>>],
            <<>>)

extractEndpoint(path, method, operation, pathParams, isV2) ==
    LET opParams == OrElse(operation, "parameters", <<>>)
        allParams == pathParams \o opParams
        paramMap == paramMapOf(pathParams, opParams)
        rawResponses == ObjectEntries(OrElse(operation, "responses", <<>>))
        described == {rawResponses[i] : i \in {j \in 1..Len(rawResponses) :
                          /\ isPlainObject(rawResponses[j][2])
                          /\ Has(rawResponses[j][2], "description")}}
        keptResponses == SelectSeq2(rawResponses, described)
        responses == MapFromEntries(
                        [i \in 1..Len(keptResponses) |->
                            <<keptResponses[i][1],
                              extractResponse(keptResponses[i][1], keptResponses[i][2], isV2)>>],
                        <<>>)
        requestBody ==
            IF isV2 THEN extractRequestBodyFromSwagger2(allParams)
            ELSE IF Has(operation, "requestBody")
            THEN extractRequestBodyFromV3(operation.requestBody)
            ELSE EmptyObject
    IN  [path |-> path,
         method |-> method,
         summary |-> OrElse(operation, "summary", ""),
         description |-> OrElse(operation, "description", ""),
         tags |-> OrElse(operation, "tags", <<>>),
         deprecated |-> OrElse(operation, "deprecated", FALSE),
         parameters |-> [i \in 1..Len(paramMap) |-> extractParameter(paramMap[i][2])],
         responses |-> responses,
         security |-> OrElse(operation, "security", <<>>)]
        @@ Opt(Has(operation, "operationId"), "operationId", OrElse(operation, "operationId", ""))
        @@ Opt(requestBody # EmptyObject, "requestBody", requestBody)

extractSecuritySchemes(doc) ==
    IF isSwagger2(doc)
    THEN LET secDefs == ObjectEntries(OrElse(doc, "securityDefinitions", <<>>))
         IN  [i \in 1..Len(secDefs) |->
                LET s == secDefs[i][2]
                IN  [name |-> secDefs[i][1], type |-> s.type]
                    @@ Pick(s, {"description", "in"})
                    @@ Opt(Has(s, "name"), "parameterName", OrElse(s, "name", ""))
                    @@ Opt(Has(s, "flow"), "flows",
                           <<<<OrElse(s, "flow", ""),
                               Pick(s, {"authorizationUrl", "tokenUrl"})
                               @@ [scopes |-> OrElse(s, "scopes", <<>>)]>>>>)]
    ELSE IF Has(doc, "components") /\ Has(doc.components, "securitySchemes")
    THEN LET all == ObjectEntries(doc.components.securitySchemes)
             plain == {all[i] : i \in {j \in 1..Len(all) : isPlainObject(all[j][2])}}
             es == SelectSeq2(all, plain)
         IN  [i \in 1..Len(es) |->
                LET s == es[i][2]
                IN  [name |-> es[i][1], type |-> s.type]
                    @@ Pick(s, {"description", "in", "scheme", "bearerFormat", "flows",
                                "openIdConnectUrl"})
                    @@ Opt(Has(s, "name"), "parameterName", OrElse(s, "name", ""))]
    ELSE <<>>

extractSchemas(doc) ==
    IF isSwagger2(doc)
    THEN MapFromEntries(ObjectEntries(OrElse(doc, "definitions", <<>>)), <<>>)
    ELSE IF Has(doc, "components") /\ Has(doc.components, "schemas")
    THEN MapFromEntries(ObjectEntries(doc.components.schemas), <<>>)
    ELSE <<>>

RECURSIVE OperationsOf(_, _, _, _)
\* the inner loop of buildParsedSpec: for (const method of HTTP_METHODS)
OperationsOf(path, pathItem, isV2, methods) ==
    IF methods = <<>> THEN <<>>
    ELSE LET method == Head(methods)
             pathParams == OrElse(pathItem, "parameters", <<>>)
         IN  (IF Has(pathItem, method) /\ ~IsNull(pathItem[method])
              THEN <<<<createEndpointKey(method, path),
                       extractEndpoint(path, method, pathItem[method], pathParams, isV2)>>>>
              ELSE <<>>)
             \o OperationsOf(path, pathItem, isV2, Tail(methods))

RECURSIVE EndpointEntries(_, _)
\* the outer loop: for (const [path, pathItem] of Object.entries(document.paths ?? {}))
EndpointEntries(paths, isV2) ==
    IF paths = <<>> THEN <<>>
    ELSE (IF isPlainObject(Head(paths)[2])
          THEN OperationsOf(Head(paths)[1], Head(paths)[2], isV2, HTTP_METHODS)
          ELSE <<>>)
         \o EndpointEntries(Tail(paths), isV2)

\* what buildParsedSpec computes from the document alone
NormalizedParts(document) ==
    LET isV2 == isSwagger2(document)
    IN  [raw |-> document,
         version |-> IF Has(document, "openapi") /\ document.openapi # "" THEN document.openapi
                     ELSE StrOr(document, "swagger", "unknown"),
         info |-> extractSpecInfo(document),
         servers |-> extractServers(document),
         endpoints |-> MapFromEntries(
                          EndpointEntries(ObjectEntries(OrElse(document, "paths", <<>>)), isV2),
                          <<>>),
         schemas |-> extractSchemas(document),
         securitySchemes |-> extractSecuritySchemes(document)]

-----------------------------------------------------------------------------
(* The spec cache: openapi/cache.  An optional argument is a sequence of    *)
(* length 0 (omitted) or 1.                                                 *)

DEFAULT_TTL_MS == 60 * 60 * 1000

defaultTtlMs == DEFAULT_TTL_MS

isExpired(entry, t) == t > entry.expiresAt

\* a get that serves an expired entry instead of removing it
CacheGetServingStale(c, key, t) ==
    IF key \notin DOMAIN c THEN [res |-> JsNull, cache |-> c]
    ELSE [res |-> c[key].spec, cache |-> c]

\* SpecCache.get at time t: the value returned and the map it leaves
CacheGet(c, key, t) ==
    IF key \notin DOMAIN c THEN [res |-> JsNull, cache |-> c]
    ELSE IF isExpired(c[key], t)
    THEN [res |-> JsNull, cache |-> [k \in (DOMAIN c) \ {key} |-> c[k]]]
    ELSE [res |-> c[key].spec, cache |-> c]

\* SpecCache.set at time t
CacheSet(c, key, spec, ttlMs, t) ==
    LET ttl == IF ttlMs = <<>> THEN defaultTtlMs ELSE ttlMs[1]
        entry == [spec |-> spec, expiresAt |-> t + ttl]
    IN  (key :> entry) @@ c

\* SpecCache.invalidate: the value returned and the map it leaves
CacheInvalidate(c, key) ==
    [res |-> key \in DOMAIN c, cache |-> [k \in (DOMAIN c) \ {key} |-> c[k]]]

CacheClear(c) == <<>>

-----------------------------------------------------------------------------
(* The load collaborator, openapi/loader: what loadAndDereferenceSpec may   *)
(* answer for given options.  The content found at a source is the          *)
(* environment's choice.                                                    *)

Truthy(options, f) == Has(options, f) /\ options[f] # ""

\* options.url || options.filePath, as an optional value
RequestedSource(options) ==
    IF Truthy(options, "url") THEN <<options.url>>
    ELSE IF Truthy(options, "filePath") THEN <<options.filePath>>
    ELSE <<>>

\* an error thrown by the platform, such as the TypeError of new URL
TypeError == [name |-> "TypeError"]

ALLOWED_PROTOCOLS == {"http:", "https:"}

endsWith(s, suffix) ==
    Len(s) >= Len(suffix) /\ SubSeq(s, Len(s) - Len(suffix) + 1, Len(s)) = suffix

SchemeCharacters == UpperLetters \o LowerLetters \o Digits \o "+-."

\* the schemes whose URLs need a host
SchemesWithHost == {"http", "https", "ws", "wss", "ftp"}

\* new URL(url).protocol as an optional value, none if the constructor
\* throws; for urls without white space and with a host that is empty or
\* well-formed
UrlProtocol(url) ==
    LET n == PrefixIn(url, SchemeCharacters)
        scheme == toLowerCase(SubSeq(url, 1, n))
        rest == SubSeq(url, n + 2, Len(url))
        host == SubSeq(rest, PrefixIn(rest, "/\\") + 1, Len(rest))
    IN  IF n = 0 \/ n = Len(url) \/ IndexIn(CharAt(url, 1), Digits \o "+-.") > 0
           \/ CharAt(url, n + 1) # ":"
        THEN <<>>
        ELSE IF scheme \in SchemesWithHost /\ host = "" THEN <<>>
        ELSE <<scheme \o ":">>

\* isYaml(source), of a source without leading white space
SourceIsYaml(source) ==
    LET lowerPath == toLowerCase(source)
    IN  \/ endsWith(lowerPath, ".yaml") \/ endsWith(lowerPath, ".yml")
        \/ startsWith(lowerPath, "openapi:") \/ startsWith(lowerPath, "swagger:")

\* the steps of a load the environment may make fail: the file is missing
\* or unreadable; the response has a status that is not OK, the request is
\* aborted at the timeout or fails in the network; the content parses
\* neither as JSON nor as YAML; the parser does not validate or does not
\* dereference the document
Failures ==
    {"none", "missing", "unreadable", "status", "abort", "network", "syntax", "invalid",
     "dangling"}

\* what the environment decides about one load: the step that fails, if
\* any, and whether the content is JSON, YAML by its first key, or other
\* text
Environments == [fails : Failures, content : {"json", "yaml", "text"}]

\* fetchFromUrl(url, timeout): the content is fetched or an error is thrown
fetchFromUrl(url, env) ==
    IF UrlProtocol(url) = <<>> THEN Throw(TypeError)
    ELSE IF UrlProtocol(url)[1] \notin ALLOWED_PROTOCOLS THEN Throw(SpecLoadError([url |-> url]))
    ELSE IF env.fails = "status" THEN Throw(SpecLoadError([url |-> url, status |-> 404]))
    ELSE IF env.fails \in {"abort", "network"} THEN Throw(SpecLoadError([url |-> url]))
    ELSE Return("content")

\* readFromFile(filePath)
readFromFile(filePath, env) ==
    IF includes(filePath, "..") THEN Throw(SpecLoadError([filePath |-> filePath]))
    ELSE IF env.fails = "missing" THEN Throw(SpecLoadError([filePath |-> filePath]))
    ELSE IF env.fails = "unreadable" THEN Throw(SpecLoadError([filePath |-> filePath]))
    ELSE Return("content")

\* parseContent(content, source)
parseContent(source, env) ==
    IF env.content = "json" /\ env.fails # "syntax" THEN Return("rawDoc")
    ELSE IF SourceIsYaml(source) \/ env.content = "yaml"
    THEN (IF env.fails # "syntax" THEN Return("rawDoc")
          ELSE Throw(SpecLoadError([source |-> source])))
    ELSE Throw(SpecLoadError([source |-> source]))

\* loadAndDereferenceSpec(options) in the environment env: the source of the
\* document delivered, or the error thrown
loadAndDereferenceSpec(options, env) ==
    LET source == RequestedSource(options)[1]
        content == IF Truthy(options, "url") THEN fetchFromUrl(options.url, env)
                   ELSE readFromFile(options.filePath, env)
        rawDoc == parseContent(source, env)
    IN  IF RequestedSource(options) = <<>>
        THEN Throw([name |-> "OpenAPIError", code |-> "SPEC_LOAD_ERROR"])
        ELSE IF Threw(content) THEN content
        ELSE IF Threw(rawDoc) THEN rawDoc
        ELSE IF env.fails = "invalid" THEN Throw(SpecLoadError([source |-> source]))
        ELSE IF env.fails = "dangling" THEN Throw(SpecLoadError([source |-> source]))
        ELSE Return([source |-> source])

\* what the load collaborator may answer for options
LoaderOutcomes(options) == {loadAndDereferenceSpec(options, env) : env \in Environments}

-----------------------------------------------------------------------------
(* SpecService: openapi/spec-service *)

CACHE_KEY == "current_spec"

getSpec(cur) == IF IsNull(cur) THEN Throw(SpecNotLoadedError) ELSE Return(cur)

isLoaded(cur) == ~IsNull(cur)

getEndpoints(cur) ==
    LET s == getSpec(cur)
    IN  IF Threw(s) THEN s ELSE Return(s.ret.endpoints)

getEndpoint(cur, path, method) ==
    LET key == createEndpointKey(method, path)
        s == getSpec(cur)
    IN  IF Threw(s) THEN s
        ELSE IF ~MapHas(s.ret.endpoints, key)
        THEN Throw(EndpointNotFoundError(normalizePath(path), normalizeMethod(method)))
        ELSE Return(MapGet(s.ret.endpoints, key))

\* the first content type, whatever is preferred
SelectFirstContentType(content, preferredContentType) == content[1][1]

\* "Try preferred content type first", "Fall back to first available":
\* the content type chosen in a non-empty content map
SelectContentType(content, preferredContentType) ==
    IF MapHas(content, preferredContentType) THEN preferredContentType
    ELSE content[1][1]

getRequestSchema(cur, path, method, preferredContentType) ==
    LET e == getEndpoint(cur, path, method)
    IN  IF Threw(e) THEN e
        ELSE IF ~Has(e.ret, "requestBody") THEN Return(JsNull)
        ELSE LET body == e.ret.requestBody
                 content == body.content
             IN  IF ~MapHas(content, preferredContentType) /\ ~(Len(content) > 0)
                 THEN Return(JsNull)
                 ELSE LET contentType == SelectContentType(content, preferredContentType)
                      IN  Return([schema |-> MapGet(content, contentType).schema,
                                  contentType |-> contentType,
                                  required |-> body.required,
                                  description |-> body.description])

\* a resolution that tries default before the wildcard keys
ResolveResponseDefaultFirst(responses, statusCode) ==
    IF MapHas(responses, statusCode)
    THEN <<<<statusCode, MapGet(responses, statusCode)>>>>
    ELSE IF MapHas(responses, "default")
    THEN <<<<"default", MapGet(responses, "default")>>>>
    ELSE IF \E i \in 1..Len(responses) : matchesStatusCode(statusCode, responses[i][1])
    THEN LET i == CHOOSE i \in 1..Len(responses) :
                    /\ matchesStatusCode(statusCode, responses[i][1])
                    /\ \A j \in 1..(i - 1) : ~matchesStatusCode(statusCode, responses[j][1])
         IN  <<<<responses[i][1], responses[i][2]>>>>
    ELSE <<>>

\* the responses entry getResponseSchema resolves for statusCode: a sequence
\* of length 0 (none) or 1 (<<matchedCode, response>>)
ResolveResponse(responses, statusCode) ==
    IF MapHas(responses, statusCode)
    THEN <<<<statusCode, MapGet(responses, statusCode)>>>>
    ELSE IF \E i \in 1..Len(responses) : matchesStatusCode(statusCode, responses[i][1])
    THEN LET i == CHOOSE i \in 1..Len(responses) :
                    /\ matchesStatusCode(statusCode, responses[i][1])
                    /\ \A j \in 1..(i - 1) : ~matchesStatusCode(statusCode, responses[j][1])
         IN  <<<<responses[i][1], responses[i][2]>>>>
    ELSE IF MapHas(responses, "default")
    THEN <<<<"default", MapGet(responses, "default")>>>>
    ELSE <<>>

getResponseSchema(cur, path, method, statusCode, preferredContentType) ==
    LET e == getEndpoint(cur, path, method)
    IN  IF Threw(e) THEN e
        ELSE LET r == ResolveResponse(e.ret.responses, statusCode)
             IN  IF r = <<>> THEN Return(JsNull)
                 ELSE IF ~Has(r[1][2], "content") THEN Return(JsNull)
                 ELSE LET response == r[1][2]
                          content == response.content
                      IN  IF ~MapHas(content, preferredContentType) /\ ~(Len(content) > 0)
                          THEN Return(JsNull)
                          ELSE LET contentType == SelectContentType(content, preferredContentType)
                               IN  Return([schema |-> MapGet(content, contentType).schema,
                                           contentType |-> contentType,
                                           description |-> response.description,
                                           statusCode |-> r[1][1]])

getSecuritySchemes(cur) ==
    LET s == getSpec(cur)
    IN  IF Threw(s) THEN s ELSE Return(s.ret.securitySchemes)

getServers(cur) ==
    LET s == getSpec(cur)
    IN  IF Threw(s) THEN s ELSE Return(s.ret.servers)

getGlobalSecurity(cur) ==
    LET s == getSpec(cur)
    IN  IF Threw(s) THEN s ELSE Return(OrElse(s.ret.raw, "security", <<>>))

-----------------------------------------------------------------------------
(* The sample generator: openapi/sample-generator.  Numbers of the model    *)
(* are integers.  A schema that is reached through a pointer (an object     *)
(* shared, possibly cyclically, inside the schema graph) is [ptr |-> name], *)
(* the name being looked up in SchemaHeap.  A schema whose type is an array *)
(* of names carries it in the field types instead of type.                  *)

JStr(x) == [str |-> x]

JNum(n) == [num |-> n]

JBool(b) == [bool |-> b]

JArr(items) == [arr |-> items]

RECURSIVE NatToStr(_)
NatToStr(n) ==
    IF n < 10 THEN CharAt(Digits, n + 1)
    ELSE NatToStr(n \div 10) \o CharAt(Digits, (n % 10) + 1)

\* a JavaScript object with the given properties, assigned in this order
JObj(pairs) == [obj |-> ObjectEntries(MapFromEntries(pairs, <<>>))]

\* the own enumerable properties of an object or an array
OwnEntries(v) ==
    IF Has(v, "obj") THEN v.obj
    ELSE [i \in 1..Len(v.arr) |-> <<NatToStr(i - 1), v.arr[i]>>]

\* Object.assign(target, source)
ObjectAssign(target, source) == JObj(target.obj \o OwnEntries(source))

IsObjectLike(v) == Has(v, "obj") \/ Has(v, "arr")

RECURSIVE StringOf(_)
RECURSIVE JoinValues(_)
\* Array.prototype.join(",")
JoinValues(items) ==
    IF items = <<>> THEN ""
    ELSE (IF IsNull(Head(items)) THEN "" ELSE StringOf(Head(items)))
         \o (IF Len(items) > 1 THEN "," \o JoinValues(Tail(items)) ELSE "")

\* String(v)
StringOf(v) ==
    IF Has(v, "str") THEN v.str
    ELSE IF Has(v, "num")
    THEN (IF v.num < 0 THEN "-" \o NatToStr(-v.num) ELSE NatToStr(v.num))
    ELSE IF Has(v, "bool") THEN (IF v.bool THEN "true" ELSE "false")
    ELSE IF IsNull(v) THEN "null"
    ELSE IF Has(v, "arr") THEN JoinValues(v.arr)
    ELSE "[object Object]"

NaN == [nan |-> TRUE]

\* Number(v)
NumberOf(v) ==
    IF Has(v, "num") THEN v
    ELSE IF Has(v, "bool") THEN JNum(IF v.bool THEN 1 ELSE 0)
    ELSE IF IsNull(v) THEN JNum(0)
    ELSE IF Has(v, "str")
    THEN (IF v.str = "" THEN JNum(0)
          ELSE IF \A i \in 1..Len(v.str) : IsDigit(CharAt(v.str, i)) THEN JNum(StrToNat(v.str))
          ELSE NaN)
    ELSE NaN

\* Boolean(v)
BooleanOf(v) ==
    IF Has(v, "bool") THEN v.bool
    ELSE IF Has(v, "num") THEN v.num # 0
    ELSE IF Has(v, "str") THEN v.str # ""
    ELSE IF IsNull(v) \/ Has(v, "nan") THEN FALSE
    ELSE TRUE

\* Math.floor of a number of the model
MathFloor(v) == v

DEFAULT_OPTIONS == [includeOptional |-> FALSE, maxArrayItems |-> 2, maxDepth |-> 10]

FormatSamples ==
    <<<<"email", "user@example.com">>,
      <<"uri", "https://example.com">>,
      <<"url", "https://example.com">>,
      <<"date", "2024-01-15">>,
      <<"date-time", "2024-01-15T10:30:00Z">>,
      <<"time", "10:30:00">>,
      <<"uuid", "550e8400-e29b-41d4-a716-446655440000">>,
      <<"hostname", "example.com">>,
      <<"ipv4", "192.168.1.1">>,
      <<"ipv6", "2001:0db8:85a3:0000:0000:8a2e:0370:7334">>,
      <<"byte", "SGVsbG8gV29ybGQ=">>,
      <<"binary", "<binary data>">>,
      <<"password", "********">>>>

RECURSIVE PadTo(_, _)
\* while (value.length < minLen) value += "_"
PadTo(value, minLen) == IF Len(value) < minLen THEN PadTo(value \o "_", minLen) ELSE value

HasEnum(schema) == Has(schema, "enum") /\ Len(schema.enum) > 0

\* a string sample that stamps the current time into date-time values
generateStringStamped(schema) ==
    IF Has(schema, "format") /\ schema.format = "date-time"
    THEN JStr("2024-01-15T10:30:0" \o NatToStr(now % 10) \o "Z")
    ELSE JStr(PadTo("string", OrElse(schema, "minLength", 0)))

generateString(schema) ==
    IF Has(schema, "example") THEN JStr(StringOf(schema.example))
    ELSE IF Has(schema, "default") THEN JStr(StringOf(schema.default))
    ELSE IF HasEnum(schema) THEN JStr(StringOf(schema.enum[1]))
    ELSE IF Has(schema, "format") /\ MapHas(FormatSamples, schema.format)
    THEN JStr(MapGet(FormatSamples, schema.format))
    ELSE JStr(PadTo("string", OrElse(schema, "minLength", 0)))

generateNumber(schema) ==
    IF Has(schema, "example") THEN NumberOf(schema.example)
    ELSE IF Has(schema, "default") THEN NumberOf(schema.default)
    ELSE IF HasEnum(schema) THEN NumberOf(schema.enum[1])
    ELSE LET min == IF Has(schema, "minimum") THEN schema.minimum
                    ELSE OrElse(schema, "exclusiveMinimum", 0)
             max == IF Has(schema, "maximum") THEN schema.maximum
                    ELSE OrElse(schema, "exclusiveMaximum", min + 100)
         IN  IF Has(schema, "minimum") THEN JNum(min)
             ELSE JNum((min + max) \div 2)

generateInteger(schema) == MathFloor(generateNumber(schema))

generateBoolean(schema) ==
    IF Has(schema, "example") THEN JBool(BooleanOf(schema.example))
    ELSE IF Has(schema, "default") THEN JBool(BooleanOf(schema.default))
    ELSE JBool(FALSE)

\* the schema objects that other schemas point to
SchemaHeap ==
    [Node |-> [type |-> "object",
               required |-> <<"value", "next">>,
               properties |-> <<<<"value", [type |-> "integer", maximum |-> 7]>>,
                                <<"next", [ptr |-> "Node"]>>>>],
     Tree |-> [type |-> "object",
               required |-> <<"left", "right">>,
               properties |-> <<<<"left", [ptr |-> "Tree"]>>, <<"right", [ptr |-> "Tree"]>>>>],
     List |-> [type |-> "array", items |-> [ptr |-> "List"]],
     Both |-> [allOf |-> <<[ptr |-> "Node"], [ptr |-> "Both"]>>],
     Either |-> [oneOf |-> <<[ptr |-> "Either"], [type |-> "string"]>>],
     Any |-> [type |-> "object", required |-> <<"any">>,
              properties |-> <<<<"any", [anyOf |-> <<[ptr |-> "Any"]>>]>>>>],
     Dict |-> [type |-> "object", additionalProperties |-> [ptr |-> "Dict"]],
     Sparse |-> [type |-> "object",
                 properties |-> <<<<"name", [type |-> "string"]>>>>,
                 additionalProperties |-> [ptr |-> "Sparse"]]]

Deref(schema) == IF Has(schema, "ptr") THEN SchemaHeap[schema.ptr] ELSE schema

\* schema.type, or its first element when it is an array: an optional value
FirstType(schema) ==
    IF Has(schema, "types")
    THEN (IF Len(schema.types) > 0 THEN <<schema.types[1]>> ELSE <<>>)
    ELSE IF Has(schema, "type") THEN <<schema.type>>
    ELSE <<>>

\* !schema.type
NoType(schema) == ~Has(schema, "types") /\ (~Has(schema, "type") \/ schema.type = "")

RECURSIVE generateSample(_, _, _)
RECURSIVE SampleAllOf(_, _, _, _)
RECURSIVE SampleProperties(_, _, _, _)

RECURSIVE SampleAllOfKeepingFirst(_, _, _, _)
\* a merge in which a key keeps the value of the first branch that has it
SampleAllOfKeepingFirst(branches, opts, depth, merged) ==
    IF branches = <<>> THEN merged
    ELSE LET sample == generateSample(Head(branches), opts, depth + 1)
         IN  SampleAllOfKeepingFirst(Tail(branches), opts, depth,
                 IF IsObjectLike(sample) THEN JObj(OwnEntries(sample) \o merged.obj)
                 ELSE merged)

\* for (const subSchema of schema.allOf) ... Object.assign(merged, sample)
SampleAllOf(branches, opts, depth, merged) ==
    IF branches = <<>> THEN merged
    ELSE LET sample == generateSample(Head(branches), opts, depth + 1)
         IN  SampleAllOf(Tail(branches), opts, depth,
                         IF IsObjectLike(sample) THEN ObjectAssign(merged, sample) ELSE merged)

\* properties sampled with includeOptional honoured at the top level only
SamplePropertiesOptionalBelow(entries, required, opts, depth) ==
    LET kept == SelectSeq(entries, LAMBDA entry :
                    entry[1] \in required \/ opts.includeOptional \/ depth > 0)
    IN  [i \in 1..Len(kept) |-> <<kept[i][1], generateSample(kept[i][2], opts, depth + 1)>>]

\* for (const [key, propSchema] of Object.entries(schema.properties)) ...
SampleProperties(entries, required, opts, depth) ==
    IF entries = <<>> THEN <<>>
    ELSE (IF Head(entries)[1] \in required \/ opts.includeOptional
          THEN <<<<Head(entries)[1], generateSample(Head(entries)[2], opts, depth + 1)>>>>
          ELSE <<>>)
         \o SampleProperties(Tail(entries), required, opts, depth)

\* a rule order that looks at enum before const
NodeRuleEnumFirst(schema) ==
    IF Has(schema, "example") THEN "example"
    ELSE IF Has(schema, "default") THEN "default"
    ELSE IF HasEnum(schema) THEN "enum"
    ELSE IF Has(schema, "const") THEN "const"
    ELSE IF Has(schema, "nullable") /\ schema.nullable /\ NoType(schema) THEN "nullable"
    ELSE IF Has(schema, "allOf") /\ Len(schema.allOf) > 0 THEN "allOf"
    ELSE IF Has(schema, "oneOf") /\ Len(schema.oneOf) > 0 THEN "oneOf"
    ELSE IF Has(schema, "anyOf") /\ Len(schema.anyOf) > 0 THEN "anyOf"
    ELSE IF FirstType(schema) = <<>> THEN "default:"
    ELSE FirstType(schema)[1] \o ":"

\* the first of the statements of generateSample after the depth guard that
\* returns for a schema node: a test of a keyword, or a case of the switch
\* on the type (named with a colon)
NodeRule(schema) ==
    IF Has(schema, "example") THEN "example"
    ELSE IF Has(schema, "default") THEN "default"
    ELSE IF Has(schema, "const") THEN "const"
    ELSE IF HasEnum(schema) THEN "enum"
    ELSE IF Has(schema, "nullable") /\ schema.nullable /\ NoType(schema) THEN "nullable"
    ELSE IF Has(schema, "allOf") /\ Len(schema.allOf) > 0 THEN "allOf"
    ELSE IF Has(schema, "oneOf") /\ Len(schema.oneOf) > 0 THEN "oneOf"
    ELSE IF Has(schema, "anyOf") /\ Len(schema.anyOf) > 0 THEN "anyOf"
    ELSE IF FirstType(schema) = <<>> THEN "default:"
    ELSE IF FirstType(schema)[1] \in {"string", "number", "integer", "boolean", "null",
                                      "array", "object"}
    THEN FirstType(schema)[1] \o ":"
    ELSE "default:"

\* a depth guard that lets the recursion go two levels further
SampleRuleGuardingLate(schema, opts, depth) ==
    IF depth > opts.maxDepth + 2 THEN "maxDepth" ELSE NodeRule(schema)

\* the statement of generateSample that returns for a schema node
SampleRule(schema, opts, depth) ==
    IF depth > opts.maxDepth THEN "maxDepth" ELSE NodeRule(schema)

generateSample(schemaRef, options, depth) ==
    LET schema == Deref(schemaRef)
        opts == options @@ DEFAULT_OPTIONS
        rule == SampleRule(schema, opts, depth)
        result ==
            SampleProperties(ObjectEntries(OrElse(schema, "properties", <<>>)),
                             Range(OrElse(schema, "required", <<>>)), opts, depth)
        objectSample == IF result = <<>> THEN JObj(<<>>) ELSE JObj(result)
    IN  CASE rule = "maxDepth" -> JsNull
          [] rule = "example" -> schema.example
          [] rule = "default" -> schema.default
          [] rule = "const" -> schema.const
          [] rule = "enum" -> schema.enum[1]
          [] rule = "nullable" -> JsNull
          [] rule = "allOf" -> SampleAllOf(schema.allOf, opts, depth, JObj(<<>>))
          [] rule = "oneOf" -> generateSample(schema.oneOf[1], opts, depth + 1)
          [] rule = "anyOf" -> generateSample(schema.anyOf[1], opts, depth + 1)
          [] rule = "string:" -> generateString(schema)
          [] rule = "number:" -> generateNumber(schema)
          [] rule = "integer:" -> generateInteger(schema)
          [] rule = "boolean:" -> generateBoolean(schema)
          [] rule = "null:" -> JsNull
          [] rule = "array:" ->
                IF ~Has(schema, "items") THEN JArr(<<>>)
                ELSE LET count == IF Has(schema, "minItems") THEN schema.minItems
                                  ELSE Min(1, opts.maxArrayItems)
                         item == generateSample(schema.items, opts, depth + 1)
                     IN  JArr([i \in 1..count |-> item])
          [] rule = "object:" -> objectSample
          [] rule = "default:" -> IF Has(schema, "properties") THEN objectSample ELSE JsNull

-----------------------------------------------------------------------------
(* The payload validator: openapi/validator.  A schema handed to it is a    *)
(* JavaScript object, JObj, whose property values are JSON values, nested   *)
(* objects or undefined.  An evaluator is what ajv.compile returns: it is   *)
(* bound to the schema object it was compiled from; id tells the           *)
(* evaluators apart.                                                        *)

Undefined == [undefined |-> TRUE]

RECURSIVE JSONstringify(_)
RECURSIVE StringifyMembers(_, _)
\* the members of an object, those with an undefined value left out
StringifyMembers(entries, first) ==
    IF entries = <<>> THEN ""
    ELSE IF Head(entries)[2] = Undefined THEN StringifyMembers(Tail(entries), first)
    ELSE (IF first THEN "" ELSE ",")
         \o "\"" \o Head(entries)[1] \o "\":" \o JSONstringify(Head(entries)[2])
         \o StringifyMembers(Tail(entries), FALSE)

RECURSIVE StringifyItems(_)
StringifyItems(items) ==
    IF items = <<>> THEN ""
    ELSE JSONstringify(Head(items))
         \o (IF Len(items) > 1 THEN "," \o StringifyItems(Tail(items)) ELSE "")

\* JSON.stringify(value), for values whose strings need no escaping
JSONstringify(value) ==
    IF Has(value, "str") THEN "\"" \o value.str \o "\""
    ELSE IF Has(value, "num") THEN StringOf(value)
    ELSE IF Has(value, "bool") THEN StringOf(value)
    ELSE IF Has(value, "arr") THEN "[" \o StringifyItems(value.arr) \o "]"
    ELSE IF Has(value, "obj") THEN "{" \o StringifyMembers(value.obj, TRUE) \o "}"
    ELSE "null"

JSONTypes == {"string", "number", "integer", "boolean", "null", "array", "object"}

\* the type keyword of a schema object, if it has one
TypeOf(schema) ==
    IF MapHas(schema.obj, "type") /\ Has(MapGet(schema.obj, "type"), "str")
    THEN <<MapGet(schema.obj, "type").str>>
    ELSE <<>>

\* ajv.compile(schema) throws: the schema names a type that is none
CompileFails(schema) == TypeOf(schema) # <<>> /\ TypeOf(schema)[1] \notin JSONTypes

\* the JSON type of a payload
PayloadType(payload) ==
    IF Has(payload, "str") THEN "string"
    ELSE IF Has(payload, "num") THEN "integer"
    ELSE IF Has(payload, "bool") THEN "boolean"
    ELSE IF Has(payload, "arr") THEN "array"
    ELSE IF Has(payload, "obj") THEN "object"
    ELSE "null"

\* validator(payload): the errors an evaluator finds, of the keywords type
\* and required
EvaluatorErrors(evaluator, payload) ==
    LET schema == evaluator.compiledFrom
        type == TypeOf(schema)
        required == IF MapHas(schema.obj, "required") /\ Has(MapGet(schema.obj, "required"), "arr")
                    THEN MapGet(schema.obj, "required").arr ELSE <<>>
        typeOk == \/ type = <<>>
                  \/ type[1] = PayloadType(payload)
                  \/ type[1] = "number" /\ PayloadType(payload) = "integer"
        missing == IF Has(payload, "obj")
                   THEN SelectSeq(required, LAMBDA name : ~MapHas(payload.obj, name.str))
                   ELSE <<>>
    IN  (IF typeOk THEN <<>> ELSE <<[path |-> "/", keyword |-> "type"]>>)
        \o [i \in 1..Len(missing) |-> [path |-> "/", keyword |-> "required"]]

\* a validator that compiles the schema on every call
getValidatorRecompiling(cacheMap, schema, id) ==
    LET cacheKey == JSONstringify(schema)
    IN  IF CompileFails(schema) THEN Throw(OtherError)
        ELSE Return([validator |-> [compiledFrom |-> schema, id |-> id],
                     validatorCache |-> MapSet(cacheMap, cacheKey,
                                               [compiledFrom |-> schema, id |-> id]),
                     compiled |-> TRUE])

\* getValidator(schema) on the validator cache cacheMap; id is the identity
\* of the evaluator that a compilation creates.  Returns the evaluator, the
\* cache afterwards and whether it compiled, or throws what ajv.compile threw.
getValidator(cacheMap, schema, id) ==
    LET cacheKey == JSONstringify(schema)
    IN  IF MapHas(cacheMap, cacheKey)
        THEN Return([validator |-> MapGet(cacheMap, cacheKey), validatorCache |-> cacheMap,
                     compiled |-> FALSE])
        ELSE IF CompileFails(schema) THEN Throw(OtherError)
        ELSE Return([validator |-> [compiledFrom |-> schema, id |-> id],
                     validatorCache |-> MapSet(cacheMap, cacheKey,
                                               [compiledFrom |-> schema, id |-> id]),
                     compiled |-> TRUE])

\* validatePayload(payload, schema), given what getValidator returned
validatePayload(payload, got) ==
    IF Threw(got) THEN got
    ELSE LET errors == EvaluatorErrors(got.ret.validator, payload)
         IN  Return([valid |-> errors = <<>>, errors |-> errors])

-----------------------------------------------------------------------------
(* JSON texts and the cURL generator: openapi/curl-generator.               *)

\* whether a JavaScript value is truthy
TruthyValue(v) ==
    IF Has(v, "str") THEN v.str # ""
    ELSE IF Has(v, "num") THEN v.num # 0
    ELSE IF Has(v, "bool") THEN v.bool
    ELSE Has(v, "arr") \/ Has(v, "obj")

NoValue == [ok |-> FALSE]

RECURSIVE ParseValue(_)
RECURSIVE ParseItems(_, _)
RECURSIVE ParseMembers(_, _)
\* the items of an array after the opening bracket or a comma
ParseItems(s, items) ==
    LET item == ParseValue(s)
    IN  IF ~item.ok THEN NoValue
        ELSE IF startsWith(item.rest, "]")
        THEN [ok |-> TRUE, value |-> JArr(Append(items, item.value)), rest |-> Tail(item.rest)]
        ELSE IF startsWith(item.rest, ",")
        THEN ParseItems(Tail(item.rest), Append(items, item.value))
        ELSE NoValue

\* the members of an object after the opening brace or a comma
ParseMembers(s, members) ==
    LET name == ParseValue(s)
    IN  IF ~name.ok \/ ~Has(name.value, "str") \/ ~startsWith(name.rest, ":") THEN NoValue
        ELSE LET member == ParseValue(Tail(name.rest))
                 all == Append(members, <<name.value.str, member.value>>)
             IN  IF ~member.ok THEN NoValue
                 ELSE IF startsWith(member.rest, "}")
                 THEN [ok |-> TRUE, value |-> JObj(all), rest |-> Tail(member.rest)]
                 ELSE IF startsWith(member.rest, ",")
                 THEN ParseMembers(Tail(member.rest), all)
                 ELSE NoValue

\* the JSON value s begins with and the text after it
ParseValue(s) ==
    IF startsWith(s, "null") THEN [ok |-> TRUE, value |-> JsNull, rest |-> SubSeq(s, 5, Len(s))]
    ELSE IF startsWith(s, "true")
    THEN [ok |-> TRUE, value |-> JBool(TRUE), rest |-> SubSeq(s, 5, Len(s))]
    ELSE IF startsWith(s, "false")
    THEN [ok |-> TRUE, value |-> JBool(FALSE), rest |-> SubSeq(s, 6, Len(s))]
    ELSE IF startsWith(s, "\"")
    THEN LET close == FirstIndexOf(Tail(s), "\"")
         IN  IF close = 0 \/ includes(SubSeq(s, 2, close), "\\") THEN NoValue
             ELSE [ok |-> TRUE, value |-> JStr(SubSeq(s, 2, close)),
                   rest |-> SubSeq(s, close + 2, Len(s))]
    ELSE IF startsWith(s, "[]")
    THEN [ok |-> TRUE, value |-> JArr(<<>>), rest |-> SubSeq(s, 3, Len(s))]
    ELSE IF startsWith(s, "[") THEN ParseItems(Tail(s), <<>>)
    ELSE IF startsWith(s, "{}")
    THEN [ok |-> TRUE, value |-> JObj(<<>>), rest |-> SubSeq(s, 3, Len(s))]
    ELSE IF startsWith(s, "{") THEN ParseMembers(Tail(s), <<>>)
    ELSE LET n == PrefixIn(s, Digits)
         IN  IF n = 0 \/ (n > 1 /\ CharAt(s, 1) = "0") THEN NoValue
             ELSE [ok |-> TRUE, value |-> JNum(StrToNat(SubSeq(s, 1, n))),
                   rest |-> SubSeq(s, n + 1, Len(s))]

\* JSON.parse(text), for texts without white space, escapes, signs,
\* fractions and exponents
JSONparse(text) ==
    LET parsed == ParseValue(text)
    IN  IF parsed.ok /\ parsed.rest = "" THEN Return(parsed.value) ELSE Throw(OtherError)

RECURSIVE Join(_, _)
\* Array.prototype.join for an array of strings
Join(parts, sep) ==
    IF parts = <<>> THEN ""
    ELSE IF Len(parts) = 1 THEN parts[1]
    ELSE parts[1] \o sep \o Join(Tail(parts), sep)

RECURSIVE JSONpretty(_, _)
RECURSIVE PrettyLines(_, _, _)
\* the lines of the members of an object (withKeys) or the items of an array
PrettyLines(entries, withKeys, indent) ==
    IF entries = <<>> THEN <<>>
    ELSE IF withKeys /\ Head(entries)[2] = Undefined
    THEN PrettyLines(Tail(entries), withKeys, indent)
    ELSE <<indent \o (IF withKeys THEN "\"" \o Head(entries)[1] \o "\": " ELSE "")
                  \o JSONpretty(Head(entries)[2], indent)>>
         \o PrettyLines(Tail(entries), withKeys, indent)

\* JSON.stringify(value, null, 2) of a value nested at indent
JSONpretty(value, indent) ==
    LET lines == PrettyLines(OwnEntries(value), Has(value, "obj"), indent \o "  ")
    IN  IF ~IsObjectLike(value) THEN JSONstringify(value)
        ELSE IF lines = <<>> THEN (IF Has(value, "obj") THEN "{}" ELSE "[]")
        ELSE (IF Has(value, "obj") THEN "{" ELSE "[") \o "\n"
             \o Join(lines, ",\n") \o "\n" \o indent
             \o (IF Has(value, "obj") THEN "}" ELSE "]")

\* the characters encodeURIComponent leaves as they are
Unreserved == UpperLetters \o LowerLetters \o Digits \o "-_.!~*'()"

\* other characters of ASCII and their codes
Escaped == " \"#$%&+,/:;<=>?@[]^{|}"

EscapeCodes ==
    <<"20", "22", "23", "24", "25", "26", "2B", "2C", "2F", "3A", "3B", "3C", "3D",
      "3E", "3F", "40", "5B", "5D", "5E", "7B", "7C", "7D">>

RECURSIVE encodeURIComponent(_)
encodeURIComponent(s) ==
    IF s = "" THEN ""
    ELSE (IF IndexIn(CharAt(s, 1), Unreserved) > 0 THEN CharAt(s, 1)
          ELSE "%" \o EscapeCodes[IndexIn(CharAt(s, 1), Escaped)])
         \o encodeURIComponent(Tail(s))

RECURSIVE ReplaceFirst(_, _, _)
\* String.prototype.replace with a string to search for
ReplaceFirst(s, search, replacement) ==
    IF startsWith(s, search) THEN replacement \o SubSeq(s, Len(search) + 1, Len(s))
    ELSE IF s = "" THEN ""
    ELSE CharAt(s, 1) \o ReplaceFirst(Tail(s), search, replacement)

\* Object.entries(value) of any value but null and undefined
EntriesOf(value) ==
    IF IsObjectLike(value) THEN OwnEntries(value)
    ELSE IF Has(value, "str")
    THEN [i \in 1..Len(value.str) |-> <<NatToStr(i - 1), JStr(CharAt(value.str, i))>>]
    ELSE <<>>

\* value[name] of any value but null and undefined, for a name that is no
\* array index
Member(value, name) ==
    IF Has(value, "obj") /\ MapHas(value.obj, name) THEN MapGet(value.obj, name)
    ELSE Undefined

RECURSIVE SubstitutePathParams(_, _)
\* the loop over the path parameters given
SubstitutePathParams(path, entries) ==
    IF entries = <<>> THEN path
    ELSE SubstitutePathParams(
             ReplaceFirst(path, "{" \o Head(entries)[1] \o "}", StringOf(Head(entries)[2])),
             Tail(entries))

\* a field of a parameter or of its schema, if it is present and truthy
TruthyField(r, f) == Has(r, f) /\ TruthyValue(r[f])

\* what stands for the path parameter name that was given no value
PlaceholderFor(name, parameters) ==
    LET found == SelectSeq(parameters, LAMBDA p : p.name = name)
        param == found[1]
        schema == Deref(param.schema)
    IN  IF found = <<>> THEN "<" \o name \o ">"
        ELSE IF TruthyField(param, "example") THEN StringOf(param.example)
        ELSE IF TruthyField(schema, "example") THEN StringOf(schema.example)
        ELSE IF Has(schema, "type") /\ schema.type \in {"integer", "number"} THEN "1"
        ELSE "<" \o name \o ">"

WordCharacters == UpperLetters \o LowerLetters \o Digits \o "_"

RECURSIVE FillPlaceholders(_, _)
\* path.replace(/\{(\w+)\}/g, ...)
FillPlaceholders(path, parameters) ==
    IF path = "" THEN ""
    ELSE LET rest == Tail(path)
             n == PrefixIn(rest, WordCharacters)
         IN  IF CharAt(path, 1) = "{" /\ n > 0 /\ n < Len(rest) /\ CharAt(rest, n + 1) = "}"
             THEN PlaceholderFor(SubSeq(rest, 1, n), parameters)
                  \o FillPlaceholders(SubSeq(rest, n + 2, Len(rest)), parameters)
             ELSE CharAt(path, 1) \o FillPlaceholders(rest, parameters)

\* the value a query parameter of the spec is given
QueryValueFor(param) ==
    LET schema == Deref(param.schema)
    IN  IF TruthyField(param, "example") THEN StringOf(param.example)
        ELSE IF TruthyField(schema, "example") THEN StringOf(schema.example)
        ELSE IF TruthyField(schema, "default") THEN StringOf(schema.default)
        ELSE IF Has(schema, "enum") /\ Len(schema.enum) > 0 /\ TruthyValue(schema.enum[1])
        THEN StringOf(schema.enum[1])
        ELSE "<value>"

\* the value a header parameter of the spec is given
HeaderValueFor(param) ==
    LET schema == Deref(param.schema)
    IN  IF TruthyField(param, "example") THEN StringOf(param.example)
        ELSE IF TruthyField(schema, "example") THEN StringOf(schema.example)
        ELSE "<value>"

BodyMethods == {"post", "put", "patch"}

\* s between single quotes
Quoted(s) == "'" \o s \o "'"

\* generateCurl(endpoint, requestSchema, servers, options) with pretty output;
\* requestSchema is a schema or null, pathParams and queryParams are values
\* other than null and undefined
generateCurl(endpoint, requestSchema, servers, options) ==
    LET authType == OrElse(options, "authType", "bearer")
        apiKeyHeader == OrElse(options, "apiKeyHeader", "X-API-Key")
        includeOptionalFields == OrElse(options, "includeOptionalFields", FALSE)
        base == IF Truthy(options, "baseUrl") THEN options.baseUrl
                ELSE IF Len(servers) > 0 /\ servers[1].url # "" THEN servers[1].url
                ELSE "https://api.example.com"
        url == IF Len(base) > 0 /\ CharAt(base, Len(base)) = "/"
               THEN SubSeq(base, 1, Len(base) - 1) ELSE base
        path == FillPlaceholders(
                    SubstitutePathParams(endpoint.path, EntriesOf(options.pathParams)),
                    endpoint.parameters)
        given == EntriesOf(options.queryParams)
        fromSpec == SelectSeq(endpoint.parameters, LAMBDA param :
                        /\ param.in = "query"
                        /\ param.required \/ includeOptionalFields
                        /\ ~TruthyValue(Member(options.queryParams, param.name)))
        queryParts ==
            [i \in 1..Len(given) |->
                encodeURIComponent(given[i][1]) \o "="
                    \o encodeURIComponent(StringOf(given[i][2]))]
            \o [i \in 1..Len(fromSpec) |->
                encodeURIComponent(fromSpec[i].name) \o "="
                    \o encodeURIComponent(QueryValueFor(fromSpec[i]))]
        fullUrl == IF Len(queryParts) > 0 THEN url \o path \o "?" \o Join(queryParts, "&")
                   ELSE url \o path
        hasSchema == ~IsNull(requestSchema)
        withBody == hasSchema /\ endpoint.method \in BodyMethods
        auth == IF Truthy(options, "authToken")
                THEN (IF authType = "bearer"
                      THEN <<<<"Authorization", "Bearer " \o options.authToken>>>>
                      ELSE IF authType = "basic"
                      THEN <<<<"Authorization", "Basic " \o options.authToken>>>>
                      ELSE IF authType = "api-key"
                      THEN <<<<apiKeyHeader, options.authToken>>>>
                      ELSE <<>>)
                ELSE IF Len(endpoint.security) > 0
                THEN <<<<"Authorization", "Bearer <YOUR_TOKEN>">>>>
                ELSE <<>>
        required == SelectSeq(endpoint.parameters,
                              LAMBDA param : param.in = "header" /\ param.required)
        headers == (IF withBody THEN <<<<"Content-Type", "application/json">>>> ELSE <<>>)
                   \o <<<<"Accept", "application/json">>>>
                   \o auth
                   \o [i \in 1..Len(required) |->
                          <<required[i].name, HeaderValueFor(required[i])>>]
        sample == generateSample(requestSchema, [includeOptional |-> includeOptionalFields], 0)
        parts == <<"curl">>
                 \o (IF toUpperCase(endpoint.method) # "GET"
                     THEN <<"-X " \o toUpperCase(endpoint.method)>> ELSE <<>>)
                 \o <<Quoted(fullUrl)>>
                 \o [i \in 1..Len(headers) |->
                        "-H " \o Quoted(headers[i][1] \o ": " \o headers[i][2])]
                 \o (IF withBody /\ DOMAIN Deref(requestSchema) # {}
                     THEN <<"-d " \o Quoted(JSONpretty(sample, ""))>> ELSE <<>>)
    IN  Join(parts, " \\\n  ")

-----------------------------------------------------------------------------
(* The tool handlers: tools/*.  cur is the service's current spec, input   *)
(* the validated tool input.  The text of messages is not modelled.         *)

successResponse(data) == [success |-> TRUE, data |-> data]

\* errorResponse(error, code, context); code and context are optional values
errorResponse(code, context) ==
    [success |-> FALSE]
    @@ Opt(code # <<>>, "code", IF code # <<>> THEN code[1] ELSE "")
    @@ Opt(context # <<>>, "context", IF context # <<>> THEN context[1] ELSE EmptyObject)

\* the catch block every handler ends with
CatchError(error) ==
    IF error.name = "OpenAPIError"
    THEN errorResponse(<<error.code>>,
                       IF Has(error, "context") THEN <<error.context>> ELSE <<>>)
    ELSE errorResponse(<<>>, <<>>)

RECURSIVE Flatten(_)
\* Array.prototype.flat, flatMap
Flatten(ss) == IF ss = <<>> THEN <<>> ELSE Head(ss) \o Flatten(Tail(ss))

\* Array.prototype.slice(0, n)
SliceTo(s, n) == SubSeq(s, 1, Min(Len(s), Max(n, 0)))

\* the primary order of the collation String.prototype.localeCompare uses,
\* for the characters paths are written with
CollationOrder == "_-.{}/0123456789abcdefghijklmnopqrstuvwxyz"

RECURSIVE ComparePrimary(_, _)
ComparePrimary(a, b) ==
    IF a = "" THEN (IF b = "" THEN 0 ELSE -1)
    ELSE IF b = "" THEN 1
    ELSE LET x == IndexIn(CharAt(a, 1), CollationOrder)
             y == IndexIn(CharAt(b, 1), CollationOrder)
         IN  IF x < y THEN -1
             ELSE IF x > y THEN 1
             ELSE ComparePrimary(Tail(a), Tail(b))

RECURSIVE CompareCase(_, _)
\* equal letters apart from case: the lower-case one sorts first
CompareCase(a, b) ==
    IF a = "" \/ b = "" THEN 0
    ELSE IF CharAt(a, 1) = CharAt(b, 1) THEN CompareCase(Tail(a), Tail(b))
    ELSE IF IndexIn(CharAt(a, 1), LowerLetters) > 0 THEN -1
    ELSE 1

localeCompare(a, b) ==
    LET primary == ComparePrimary(toLowerCase(a), toLowerCase(b))
    IN  IF primary # 0 THEN primary ELSE CompareCase(a, b)

METHOD_ORDER ==
    <<<<"get", 0>>, <<"post", 1>>, <<"put", 2>>, <<"patch", 3>>,
      <<"delete", 4>>, <<"options", 5>>, <<"head", 6>>, <<"trace", 7>>>>

\* a subtraction with an undefined operand is NaN, which a sort takes as 0
compareEndpoints(a, b) ==
    LET pathCompare == localeCompare(a.path, b.path)
    IN  IF pathCompare # 0 THEN pathCompare
        ELSE IF MapHas(METHOD_ORDER, a.method) /\ MapHas(METHOD_ORDER, b.method)
        THEN MapGet(METHOD_ORDER, a.method) - MapGet(METHOD_ORDER, b.method)
        ELSE 0

RECURSIVE InsertSorted(_, _)
InsertSorted(sorted, x) ==
    IF sorted = <<>> THEN <<x>>
    ELSE IF compareEndpoints(sorted[Len(sorted)], x) <= 0 THEN Append(sorted, x)
    ELSE Append(InsertSorted(SubSeq(sorted, 1, Len(sorted) - 1), x), sorted[Len(sorted)])

RECURSIVE InsertBeforeEqual(_, _)
InsertBeforeEqual(sorted, x) ==
    IF sorted = <<>> THEN <<x>>
    ELSE IF compareEndpoints(sorted[Len(sorted)], x) < 0 THEN Append(sorted, x)
    ELSE Append(InsertBeforeEqual(SubSeq(sorted, 1, Len(sorted) - 1), x), sorted[Len(sorted)])

RECURSIVE SortEndpointsUnstable(_)
\* a sort that reverses the elements the comparison takes as equal
SortEndpointsUnstable(results) ==
    IF results = <<>> THEN <<>>
    ELSE InsertBeforeEqual(SortEndpointsUnstable(SubSeq(results, 1, Len(results) - 1)),
                           results[Len(results)])

RECURSIVE SortEndpoints(_)
\* results.sort(compareEndpoints): a stable sort
SortEndpoints(results) ==
    IF results = <<>> THEN <<>>
    ELSE InsertSorted(SortEndpoints(SubSeq(results, 1, Len(results) - 1)),
                      results[Len(results)])

EndpointSummary(endpoint) ==
    [path |-> endpoint.path,
     method |-> toUpperCase(endpoint.method),
     summary |-> endpoint.summary,
     tags |-> endpoint.tags,
     deprecated |-> endpoint.deprecated]
    @@ Pick(endpoint, {"operationId"})

\* a list_endpoints tool that counts the endpoints it returns
handleListEndpointsCountingReturned(cur, input) ==
    LET r == getEndpoints(cur)
    IN  IF Threw(r) THEN CatchError(r.threw)
        ELSE LET endpoints == MapValues(r.ret)
                 kept == SelectSeq(endpoints, LAMBDA endpoint :
                            /\ ~(Truthy(input, "tag") /\ input.tag \notin Range(endpoint.tags))
                            /\ ~(Truthy(input, "method") /\ endpoint.method # input.method)
                            /\ ~(Has(input, "deprecated") /\ ~input.deprecated
                                    /\ endpoint.deprecated))
                 results == SortEndpoints([i \in 1..Len(kept) |-> EndpointSummary(kept[i])])
                 limited == IF Has(input, "limit") /\ input.limit # 0
                            THEN SliceTo(results, input.limit) ELSE results
             IN  successResponse([endpoints |-> limited, totalCount |-> Len(limited)])

handleListEndpoints(cur, input) ==
    LET r == getEndpoints(cur)
    IN  IF Threw(r) THEN CatchError(r.threw)
        ELSE LET endpoints == MapValues(r.ret)
                 kept == SelectSeq(endpoints, LAMBDA endpoint :
                            /\ ~(Truthy(input, "tag") /\ input.tag \notin Range(endpoint.tags))
                            /\ ~(Truthy(input, "method") /\ endpoint.method # input.method)
                            /\ ~(Has(input, "deprecated") /\ ~input.deprecated
                                    /\ endpoint.deprecated))
                 results == SortEndpoints([i \in 1..Len(kept) |-> EndpointSummary(kept[i])])
                 limited == IF Has(input, "limit") /\ input.limit # 0
                            THEN SliceTo(results, input.limit) ELSE results
             IN  successResponse([endpoints |-> limited, totalCount |-> Len(results)])

handleSearchEndpoints(cur, input) ==
    LET r == getEndpoints(cur)
    IN  IF Threw(r) THEN CatchError(r.threw)
        ELSE LET query == toLowerCase(input.query)
                 searchText(endpoint) ==
                     toLowerCase(Join(<<endpoint.path, endpoint.summary, endpoint.description,
                                        StrOr(endpoint, "operationId", "")>>
                                      \o endpoint.tags, " "))
                 kept == SelectSeq(MapValues(r.ret),
                                   LAMBDA endpoint : includes(searchText(endpoint), query))
                 results == [i \in 1..Len(kept) |-> EndpointSummary(kept[i])]
                 limit == OrElse(input, "limit", 20)
             IN  successResponse([endpoints |-> SliceTo(results, limit),
                                  totalCount |-> Len(results)])

\* contentTypes, schema and example of the media type a details view shows
MediaView(content) ==
    LET contentTypes == MapKeys(content)
        preferredType == IF "application/json" \in Range(contentTypes)
                         THEN <<"application/json">>
                         ELSE IF Len(contentTypes) > 0 THEN <<contentTypes[1]>>
                         ELSE <<>>
    IN  [contentTypes |-> contentTypes]
        @@ (IF preferredType = <<>> THEN EmptyObject
            ELSE Pick(MapGet(content, preferredType[1]), {"schema", "example"}))

handleGetEndpointDetails(cur, input) ==
    LET r == getEndpoint(cur, input.path, input.method)
    IN  IF Threw(r) THEN CatchError(r.threw)
        ELSE LET endpoint == r.ret
                 parameters == [i \in 1..Len(endpoint.parameters) |->
                                   Pick(endpoint.parameters[i],
                                        {"name", "in", "required", "deprecated",
                                         "description", "schema", "example"})]
                 requestBody ==
                     IF Has(endpoint, "requestBody")
                     THEN [required |-> endpoint.requestBody.required,
                           description |-> endpoint.requestBody.description]
                          @@ MediaView(endpoint.requestBody.content)
                     ELSE EmptyObject
                 responses == [i \in 1..Len(endpoint.responses) |->
                                  LET response == endpoint.responses[i][2]
                                  IN  [statusCode |-> endpoint.responses[i][1],
                                       description |-> response.description]
                                      @@ MediaView(OrElse(response, "content", <<>>))]
                 security == [i \in 1..Len(endpoint.security) |->
                                 [schemes |-> MapKeys(ObjectEntries(endpoint.security[i])),
                                  scopes |-> Flatten(MapValues(ObjectEntries(endpoint.security[i])))]]
             IN  successResponse(
                     [path |-> endpoint.path,
                      method |-> toUpperCase(endpoint.method),
                      summary |-> endpoint.summary,
                      description |-> endpoint.description,
                      tags |-> endpoint.tags,
                      deprecated |-> endpoint.deprecated,
                      parameters |-> parameters,
                      responses |-> responses,
                      security |-> security]
                     @@ Pick(endpoint, {"operationId"})
                     @@ Opt(requestBody # EmptyObject, "requestBody", requestBody))

handleGetRequestSchema(cur, input) ==
    LET r == getRequestSchema(cur, input.path, input.method, "application/json")
    IN  IF Threw(r) THEN CatchError(r.threw)
        ELSE IF IsNull(r.ret) THEN successResponse([hasRequestBody |-> FALSE])
        ELSE successResponse(Pick(r.ret, {"contentType", "required", "description", "schema"}))

handleGetResponseSchema(cur, input) ==
    LET statusCode == OrElse(input, "statusCode", "200")
        r == getResponseSchema(cur, input.path, input.method, statusCode, "application/json")
    IN  IF Threw(r) THEN CatchError(r.threw)
        ELSE IF IsNull(r.ret) THEN successResponse([hasResponseBody |-> FALSE])
        ELSE successResponse(Pick(r.ret, {"statusCode", "contentType", "description", "schema"}))

handleGetServers(cur) ==
    LET r == getServers(cur)
    IN  IF Threw(r) THEN CatchError(r.threw)
        ELSE successResponse(
                 [servers |-> [i \in 1..Len(r.ret) |->
                                  Pick(r.ret[i], {"url", "description", "variables"})]])

handleGenerateSample(cur, input) ==
    LET r == getRequestSchema(cur, input.path, input.method, "application/json")
    IN  IF Threw(r) THEN CatchError(r.threw)
        ELSE IF IsNull(r.ret)
        THEN errorResponse(<<"NO_REQUEST_BODY">>,
                           <<[path |-> input.path, method |-> input.method]>>)
        ELSE successResponse(
                 [sample |-> generateSample(r.ret.schema,
                                 [includeOptional |-> OrElse(input, "includeOptional", FALSE)], 0),
                  contentType |-> r.ret.contentType])

\* the keywords of a schema in the order SchemaValue lists them
SchemaKeywords ==
    <<"type", "types", "title", "description", "format", "nullable", "required",
      "properties", "items", "allOf", "oneOf", "anyOf", "enum", "const", "example",
      "default", "minimum", "maximum", "minLength", "maxLength", "minItems", "maxItems">>

RECURSIVE SchemaValue(_)
\* a schema without reference cycles as the JavaScript object it is
SchemaValue(schema) ==
    LET names(list) == JArr([i \in 1..Len(list) |-> JStr(list[i])])
        member(f) ==
            IF f \in {"type", "title", "description", "format"} THEN JStr(schema[f])
            ELSE IF f \in {"types", "required"} THEN names(schema[f])
            ELSE IF f = "nullable" THEN JBool(schema[f])
            ELSE IF f = "properties"
            THEN JObj([i \in 1..Len(schema[f]) |->
                          <<schema[f][i][1], SchemaValue(schema[f][i][2])>>])
            ELSE IF f = "items" THEN SchemaValue(schema[f])
            ELSE IF f \in {"allOf", "oneOf", "anyOf"}
            THEN JArr([i \in 1..Len(schema[f]) |-> SchemaValue(schema[f][i])])
            ELSE IF f = "enum" THEN JArr(schema[f])
            ELSE IF f \in {"const", "example", "default"} THEN schema[f]
            ELSE JNum(schema[f])
        present == SelectSeq(SchemaKeywords, LAMBDA f : Has(schema, f))
    IN  JObj([i \in 1..Len(present) |->
                 <<IF present[i] = "types" THEN "type" ELSE present[i], member(present[i])>>])

\* the validate_payload tool on the validator cache cacheMap.  Returns the
\* response and the validator cache afterwards; compiled tells whether an
\* evaluator, of identity id, was compiled.  A schema with a reference cycle
\* makes JSON.stringify throw.
handleValidatePayload(cur, input, cacheMap, id) ==
    LET r == getRequestSchema(cur, input.path, input.method, "application/json")
        unchanged(response) ==
            [response |-> response, validatorCache |-> cacheMap, compiled |-> FALSE]
        parsed == JSONparse(input.payload.str)
        payload == IF Has(input.payload, "str") /\ ~Threw(parsed) THEN parsed.ret
                   ELSE input.payload
        got == getValidator(cacheMap, SchemaValue(r.ret.schema), id)
        result == validatePayload(payload, got)
    IN  IF Threw(r) THEN unchanged(CatchError(r.threw))
        ELSE IF IsNull(r.ret)
        THEN unchanged(errorResponse(<<"NO_REQUEST_BODY">>,
                                     <<[path |-> input.path, method |-> input.method]>>))
        ELSE IF Has(r.ret.schema, "ptr") THEN unchanged(CatchError(OtherError))
        ELSE IF Threw(result) THEN unchanged(CatchError(result.threw))
        ELSE [response |-> successResponse(result.ret),
              validatorCache |-> got.ret.validatorCache,
              compiled |-> got.ret.compiled]

\* input[f] || {}, parsed if it is a string; a text that does not parse
\* stands for {}
ParamsGiven(input, f) ==
    LET given == IF Has(input, f) /\ TruthyValue(input[f]) THEN input[f] ELSE JObj(<<>>)
        parsed == JSONparse(given.str)
    IN  IF ~Has(given, "str") THEN given
        ELSE IF Threw(parsed) THEN JObj(<<>>)
        ELSE parsed.ret

\* a generate_curl tool that refuses an endpoint without a request body
handleGenerateCurlRequiringBody(cur, input) ==
    LET requestSchema == getRequestSchema(cur, input.path, input.method, "application/json")
    IN  IF Threw(requestSchema) THEN CatchError(requestSchema.threw)
        ELSE errorResponse(<<"NO_REQUEST_BODY">>,
                           <<[path |-> input.path, method |-> input.method]>>)

\* the generate_curl tool; Object.entries throws on null
handleGenerateCurl(cur, input) ==
    LET endpoint == getEndpoint(cur, input.path, input.method)
        servers == getServers(cur)
        requestSchema == getRequestSchema(cur, input.path, input.method, "application/json")
        pathParams == ParamsGiven(input, "pathParams")
        queryParams == ParamsGiven(input, "queryParams")
        schema == IF IsNull(requestSchema.ret) THEN JsNull ELSE requestSchema.ret.schema
        curl == generateCurl(endpoint.ret, schema, servers.ret,
                             Pick(input, {"baseUrl", "authToken", "authType", "apiKeyHeader"})
                             @@ [pathParams |-> pathParams,
                                 queryParams |-> queryParams,
                                 includeOptionalFields |-> OrElse(input, "includeOptional", FALSE),
                                 pretty |-> TRUE])
    IN  IF Threw(endpoint) THEN CatchError(endpoint.threw)
        ELSE IF IsNull(pathParams) \/ IsNull(queryParams) THEN CatchError(OtherError)
        ELSE successResponse([path |-> input.path,
                              method |-> toUpperCase(input.method),
                              curl |-> curl])

handleGetAuthSchemes(cur) ==
    LET schemes == getSecuritySchemes(cur)
        globalSecurity == getGlobalSecurity(cur)
        endpoints == getEndpoints(cur)
        names(security) ==
            Flatten([i \in 1..Len(security) |-> MapKeys(ObjectEntries(security[i]))])
    IN  IF Threw(schemes) THEN CatchError(schemes.threw)
        ELSE successResponse(
                 [schemes |-> [i \in 1..Len(schemes.ret) |->
                                  Pick(schemes.ret[i],
                                       {"name", "type", "description", "in", "parameterName",
                                        "scheme", "bearerFormat", "flows", "openIdConnectUrl"})],
                  globalSecurity |-> names(globalSecurity.ret),
                  endpointRequirements |->
                      JObj([i \in 1..Len(endpoints.ret) |->
                              LET endpoint == endpoints.ret[i][2]
                              IN  <<toUpperCase(endpoint.method) \o " " \o endpoint.path,
                                    names(IF Len(endpoint.security) > 0 THEN endpoint.security
                                          ELSE globalSecurity.ret)>>]).obj])

-----------------------------------------------------------------------------
(* The documents the load collaborator can deliver, and the options        *)
(* loadSpec is called with                                                  *)

PetSchema ==
    [type |-> "object",
     required |-> <<"name">>,
     properties |-> <<<<"name", [type |-> "string"]>>,
                      <<"age", [type |-> "integer", minimum |-> 0]>>>>]

DocPets ==
    [openapi |-> "3.0.0",
     info |-> [title |-> "Pets", version |-> "1.0.0"],
     servers |-> <<[url |-> "https://pets.test/v1"]>>,
     security |-> <<<<<<"key", <<>>>>>>>>,
     paths |-> <<
        <<"/pets",
          [get |-> [operationId |-> "listPets",
                    tags |-> <<"Pets">>,
                    responses |-> <<
                        <<"default", [description |-> "error"]>>,
                        <<"200", [description |-> "ok",
                                  content |-> <<<<"application/json",
                                                  [schema |-> [type |-> "array",
                                                               items |-> PetSchema]]>>>>]>>>>],
           post |-> [operationId |-> "createPet",
                     tags |-> <<"Pets">>,
                     requestBody |-> [required |-> TRUE,
                                      content |-> <<<<"application/xml", [schema |-> PetSchema]>>,
                                                    <<"application/json", [schema |-> PetSchema]>>>>],
                     responses |-> <<<<"201", [description |-> "created"]>>>>]]>>>>,
     components |-> [schemas |-> <<<<"Pet", PetSchema>>>>,
                     securitySchemes |-> <<<<"key", [type |-> "apiKey", in |-> "header",
                                                     name |-> "X-API-Key"]>>>>]]

DocUsers ==
    [swagger |-> "2.0",
     info |-> [title |-> "Users", version |-> "2.1"],
     host |-> "users.test",
     basePath |-> "/api",
     paths |-> <<
        <<"/users",
          [parameters |-> <<[name |-> "tenant", in |-> "header", type |-> "string"]>>,
           get |-> [tags |-> <<"Users">>,
                    deprecated |-> TRUE,
                    responses |-> <<<<"200", [description |-> "ok",
                                              schema |-> [type |-> "array",
                                                          items |-> [type |-> "string"]]]>>>>],
           put |-> [tags |-> <<"Users">>,
                    parameters |-> <<[name |-> "body", in |-> "body", required |-> TRUE,
                                      schema |-> [type |-> "object",
                                                  properties |-> <<<<"email",
                                                      [type |-> "string", format |-> "email"]>>>>]]>>,
                    responses |-> <<<<"2XX", [description |-> "done"]>>>>]]>>>>,
     definitions |-> <<<<"Email", [type |-> "string", format |-> "email"]>>>>]

Docs == {DocPets, DocUsers}

\* the sequences without repetition of at most n elements of S
Orderings(S, n) ==
    {s \in UNION {[1..k -> S] : k \in 0..n} : \A i, j \in 1..Len(s) : s[i] = s[j] => i = j}

StatusKeys == {"200", "2XX", "20X", "default"}

MediaTypes == {"application/json", "application/xml", "text/plain"}

\* the description a response declared under a status key carries
ResponseLabel(key) ==
    IF key = "200" THEN "A" ELSE IF key = "2XX" THEN "B" ELSE IF key = "default" THEN "C" ELSE "D"

\* a content object declaring the media types in the given order, each with
\* a schema of its own
RawContent(owner, mediaTypes) ==
    [i \in 1..Len(mediaTypes) |->
        <<mediaTypes[i], [schema |-> [type |-> "string", title |-> owner \o " " \o mediaTypes[i]]]>>]

\* a responses object declaring the status keys in the given order; the
\* response under 20X declares no content
RawResponses(statusKeys, mediaTypes) ==
    [i \in 1..Len(statusKeys) |->
        <<statusKeys[i],
          [description |-> ResponseLabel(statusKeys[i])]
          @@ Opt(statusKeys[i] # "20X", "content", RawContent(statusKeys[i], mediaTypes))>>]

\* a document with one path: a post operation with the given responses and,
\* if withBody, a request body, and a get operation without either
QueryDoc(statusKeys, mediaTypes, withBody) ==
    [openapi |-> "3.0.3",
     info |-> [title |-> "Queries", version |-> "1"],
     paths |-> <<
        <<"/pets",
          [get |-> [operationId |-> "listPets"],
           post |-> [responses |-> RawResponses(statusKeys, mediaTypes)]
                    @@ Opt(withBody, "requestBody",
                           [required |-> TRUE, content |-> RawContent("body", mediaTypes)])]>>>>]

\* the documents the accessors are asked about: every order of status keys
\* with one media type, and every order of media types with two status keys
QueryDocs ==
    {QueryDoc(statusKeys, <<"application/json">>, FALSE) :
        statusKeys \in Orderings(StatusKeys, MaxResponses)}
    \cup
    {QueryDoc(<<"default", "2XX">>, mediaTypes, withBody) :
        mediaTypes \in Orderings(MediaTypes, MaxMediaTypes),
        withBody \in BOOLEAN}

\* NormalizedParts, tabulated over the documents of the model
Normalized == [document \in Docs \cup QueryDocs |-> NormalizedParts(document)]

\* buildParsedSpec(document, source) at time t; id is the identity of the
\* object it allocates
buildParsedSpec(document, source, t, id) ==
    (IF document \in DOMAIN Normalized THEN Normalized[document]
     ELSE NormalizedParts(document))
    @@ [id |-> id, loadedAt |-> t, source |-> source]

UrlSource == "https://a.test/openapi.json"

FileSource == "specs/b.yaml"

LoadOptions ==
    {[url |-> UrlSource],
     [filePath |-> FileSource],
     [url |-> UrlSource, filePath |-> FileSource],
     EmptyObject}

\* options with which a load fails or may fail: a url that is none, one
\* without a host, one with another protocol, one that may be fetched, a
\* path that leaves the directory, one that may be read, and a url taking
\* precedence over a path
FailingOptions ==
    {[url |-> "not a url"],
     [url |-> "https://"],
     [url |-> "ftp://a.test/openapi.json"],
     [url |-> "HTTP://a.test/spec"],
     [filePath |-> "../secret.json"],
     [filePath |-> "specs/c.txt"],
     [url |-> "a.test/openapi.yaml", filePath |-> FileSource]}

\* LoaderOutcomes, tabulated over the options of the model
Outcomes == [options \in LoadOptions \cup FailingOptions |-> LoaderOutcomes(options)]

\* the errors the load collaborator may throw for options
LoaderErrors(options) == {outcome.threw : outcome \in {out \in Outcomes[options] : Threw(out)}}

\* whether the load collaborator may deliver a document for options
LoaderDelivers(options) == \E outcome \in Outcomes[options] : ~Threw(outcome)

TickSteps == {1, DEFAULT_TTL_MS}

-----------------------------------------------------------------------------
(* The state machine of the service.  calls holds the loadSpec invocations  *)
(* that wait for the load collaborator, each with its options and the       *)
(* number seq of its collaborator call.                                     *)

Init ==
    /\ currentSpec = JsNull
    /\ cache = <<>>
    /\ now = 0
    /\ calls = {}
    /\ loaderCalls = 0
    /\ loadedOk = FALSE
    /\ written = <<>>
    /\ sampled = JsNull
    /\ last = [op |-> "none"]
    /\ validatorCache = <<>>
    /\ compiled = <<>>

\* history of a cache write
Written(w, key, spec, ttlMs, t) == (key :> [spec |-> spec, at |-> t, ttlMs |-> ttlMs]) @@ w

\* loadSpec resumed after the await although an invocation issued later has
\* already published its spec: the result is returned but not published
LoadResolveIssueOrder(call, document) ==
    /\ call \in calls
    /\ RequestedSource(call.options) # <<>>
    /\ LET source == RequestedSource(call.options)[1]
           spec == buildParsedSpec(document, source, now, call.seq)
           newer == ~IsNull(currentSpec) /\ currentSpec.id > call.seq
       IN  /\ cache' = IF newer THEN cache ELSE CacheSet(cache, CACHE_KEY, spec, <<>>, now)
           /\ written' = IF newer THEN written ELSE Written(written, CACHE_KEY, spec, <<>>, now)
           /\ currentSpec' = IF newer THEN currentSpec ELSE spec
           /\ last' = [op |-> "loadSpec", options |-> call.options, seq |-> call.seq,
                       before |-> currentSpec, out |-> Return(spec)]
    /\ calls' = calls \ {call}
    /\ loadedOk' = TRUE
    /\ UNCHANGED <<now, loaderCalls, sampled>>
    /\ UNCHANGED validatorVars

\* loadSpec adding what it loaded to the endpoints and schemas already held
LoadResolveMerging(call, document) ==
    /\ call \in calls
    /\ RequestedSource(call.options) # <<>>
    /\ LET source == RequestedSource(call.options)[1]
           built == buildParsedSpec(document, source, now, call.seq)
           spec == IF IsNull(currentSpec) THEN built
                   ELSE [built EXCEPT
                            !.endpoints = MapFromEntries(built.endpoints, currentSpec.endpoints),
                            !.schemas = MapFromEntries(built.schemas, currentSpec.schemas)]
       IN  /\ cache' = CacheSet(cache, CACHE_KEY, spec, <<>>, now)
           /\ written' = Written(written, CACHE_KEY, spec, <<>>, now)
           /\ currentSpec' = spec
           /\ last' = [op |-> "loadSpec", options |-> call.options, seq |-> call.seq,
                       before |-> currentSpec, out |-> Return(spec)]
    /\ calls' = calls \ {call}
    /\ loadedOk' = TRUE
    /\ UNCHANGED <<now, loaderCalls, sampled>>
    /\ UNCHANGED validatorVars

\* loadSpec publishing a spec before the collaborator has answered, and the
\* collaborator then failing
LoadRejectPublished(call, error) ==
    /\ call \in calls
    /\ error \in LoaderErrors(call.options)
    /\ calls' = calls \ {call}
    /\ currentSpec' = buildParsedSpec(DocPets, "", now, call.seq)
    /\ last' = [op |-> "loadSpec", options |-> call.options, seq |-> call.seq,
                before |-> currentSpec, out |-> Throw(error)]
    /\ UNCHANGED <<cache, now, loaderCalls, loadedOk, written, sampled>>
    /\ UNCHANGED validatorVars

\* loadSpec invoking the collaborator again after a failure
LoadRejectRetried(call, error) ==
    /\ call \in calls
    /\ error \in LoaderErrors(call.options)
    /\ loaderCalls' = loaderCalls + 1
    /\ last' = [op |-> "loadSpec", options |-> call.options, seq |-> call.seq,
                before |-> currentSpec, out |-> Throw(error)]
    /\ UNCHANGED <<currentSpec, cache, now, calls, loadedOk, written, sampled>>
    /\ UNCHANGED validatorVars

\* loadSpec storing the cached spec anew on a cache hit
LoadStartRefreshing(options) ==
    /\ LET g == CacheGet(cache, CACHE_KEY, now)
           cached == g.res
       IN  IF ~IsNull(cached) /\ <<cached.source>> = RequestedSource(options)
           THEN /\ currentSpec' = cached
                /\ cache' = CacheSet(g.cache, CACHE_KEY, cached, <<>>, now)
                /\ written' = Written(written, CACHE_KEY, cached, <<>>, now)
                /\ loadedOk' = TRUE
                /\ last' = [op |-> "loadSpec", options |-> options, seq |-> 0,
                            before |-> currentSpec, out |-> Return(cached)]
                /\ UNCHANGED <<calls, loaderCalls>>
           ELSE /\ Cardinality(calls) < MaxCalls
                /\ loaderCalls < MaxLoads
                /\ cache' = g.cache
                /\ loaderCalls' = loaderCalls + 1
                /\ calls' = calls \cup {[options |-> options, seq |-> loaderCalls + 1]}
                /\ UNCHANGED <<currentSpec, loadedOk, written, last>>
    /\ UNCHANGED <<now, sampled>>
    /\ UNCHANGED validatorVars

\* a loadSpec whose cache check, finding the entry expired, also drops the
\* active spec before the load collaborator is called
LoadStartExpiring(options) ==
    /\ LET g == CacheGet(cache, CACHE_KEY, now)
           cached == g.res
       IN  IF ~IsNull(cached) /\ <<cached.source>> = RequestedSource(options)
           THEN /\ currentSpec' = cached
                /\ cache' = g.cache
                /\ loadedOk' = TRUE
                /\ last' = [op |-> "loadSpec", options |-> options, seq |-> 0,
                            before |-> currentSpec, out |-> Return(cached)]
                /\ UNCHANGED <<calls, loaderCalls>>
           ELSE /\ Cardinality(calls) < MaxCalls
                /\ loaderCalls < MaxLoads
                /\ cache' = g.cache
                /\ currentSpec' = IF g.cache = cache THEN currentSpec ELSE JsNull
                /\ loaderCalls' = loaderCalls + 1
                /\ calls' = calls \cup {[options |-> options, seq |-> loaderCalls + 1]}
                /\ UNCHANGED <<loadedOk, last>>
    /\ UNCHANGED <<now, written, sampled>>
    /\ UNCHANGED validatorVars

\* loadSpec up to its first await: the cache check, then either the cached
\* spec or the call of the load collaborator
LoadStart(options) ==
    /\ LET g == CacheGet(cache, CACHE_KEY, now)
           cached == g.res
       IN  IF ~IsNull(cached) /\ <<cached.source>> = RequestedSource(options)
           THEN /\ currentSpec' = cached
                /\ cache' = g.cache
                /\ loadedOk' = TRUE
                /\ last' = [op |-> "loadSpec", options |-> options, seq |-> 0,
                            before |-> currentSpec, out |-> Return(cached)]
                /\ UNCHANGED <<calls, loaderCalls>>
           ELSE /\ Cardinality(calls) < MaxCalls
                /\ loaderCalls < MaxLoads
                /\ cache' = g.cache
                /\ loaderCalls' = loaderCalls + 1
                /\ calls' = calls \cup {[options |-> options, seq |-> loaderCalls + 1]}
                /\ UNCHANGED <<currentSpec, loadedOk, last>>
    /\ UNCHANGED <<now, written, sampled>>
    /\ UNCHANGED validatorVars

\* loadSpec after the await, the collaborator having delivered document
LoadResolve(call, document) ==
    /\ call \in calls
    /\ RequestedSource(call.options) # <<>>
    /\ LoaderDelivers(call.options)
    /\ LET source == RequestedSource(call.options)[1]
           spec == buildParsedSpec(document, source, now, call.seq)
       IN  /\ cache' = CacheSet(cache, CACHE_KEY, spec, <<>>, now)
           /\ written' = Written(written, CACHE_KEY, spec, <<>>, now)
           /\ currentSpec' = spec
           /\ last' = [op |-> "loadSpec", options |-> call.options, seq |-> call.seq,
                       before |-> currentSpec, out |-> Return(spec)]
    /\ calls' = calls \ {call}
    /\ loadedOk' = TRUE
    /\ UNCHANGED <<now, loaderCalls, sampled>>
    /\ UNCHANGED validatorVars

\* loadSpec after the await, the collaborator having failed with error
LoadReject(call, error) ==
    /\ call \in calls
    /\ error \in LoaderErrors(call.options)
    /\ calls' = calls \ {call}
    /\ last' = [op |-> "loadSpec", options |-> call.options, seq |-> call.seq,
                before |-> currentSpec, out |-> Throw(error)]
    /\ UNCHANGED <<currentSpec, cache, now, loaderCalls, loadedOk, written, sampled>>
    /\ UNCHANGED validatorVars

\* a clear() that resets the active spec and leaves the cache as it is
ClearKeepingCache ==
    /\ currentSpec' = JsNull
    /\ cache' = cache
    /\ written' = <<>>
    /\ loadedOk' = FALSE
    /\ last' = [op |-> "clear"]
    /\ UNCHANGED <<now, calls, loaderCalls, sampled>>
    /\ UNCHANGED validatorVars

\* SpecService.clear
Clear ==
    /\ currentSpec' = JsNull
    /\ cache' = CacheClear(cache)
    /\ written' = <<>>
    /\ loadedOk' = FALSE
    /\ last' = [op |-> "clear"]
    /\ UNCHANGED <<now, calls, loaderCalls, sampled>>
    /\ UNCHANGED validatorVars

TicksTaken == (now \div DEFAULT_TTL_MS) + (now % DEFAULT_TTL_MS)

\* time passes
Tick(d) ==
    /\ TicksTaken < MaxTicks
    /\ now' = now + d
    /\ UNCHANGED <<currentSpec, cache, calls, loaderCalls, loadedOk, written, sampled, last>>
    /\ UNCHANGED validatorVars

Next ==
    \/ \E options \in LoadOptions : LoadStart(options)
    \/ \E call \in calls, document \in Docs : LoadResolve(call, document)
    \/ \E call \in calls : \E error \in LoaderErrors(call.options) : LoadReject(call, error)
    \/ Clear
    \/ \E d \in TickSteps : Tick(d)

Spec == Init /\ [][Next]_vars

-----------------------------------------------------------------------------
(* Properties of the service *)

\* the inputs the query tools are asked with
QueryPaths == {"/pets", "pets", "/users", "/none"}

QueryMethods == {"get", "POST", "put"}

QueryInputs == [path : QueryPaths, method : QueryMethods]

FailsNotLoaded(r) == Threw(r) /\ r.threw = SpecNotLoadedError

RespondsNotLoaded(response) == response = [success |-> FALSE, code |-> "SPEC_NOT_LOADED"]

\* C1: as long as no loadSpec has completed with success since the start or
\* since the last clear(), every accessor of the service fails with
\* SpecNotLoaded and every query tool handler answers success:false with code
\* SPEC_NOT_LOADED; a failed load does not change this.
C1_NotLoadedUntilLoadSucceeds ==
    ~loadedOk =>
        /\ ~isLoaded(currentSpec)
        /\ FailsNotLoaded(getSpec(currentSpec))
        /\ FailsNotLoaded(getEndpoints(currentSpec))
        /\ FailsNotLoaded(getSecuritySchemes(currentSpec))
        /\ FailsNotLoaded(getServers(currentSpec))
        /\ FailsNotLoaded(getGlobalSecurity(currentSpec))
        /\ RespondsNotLoaded(handleListEndpoints(currentSpec, EmptyObject))
        /\ RespondsNotLoaded(handleSearchEndpoints(currentSpec, [query |-> "pet"]))
        /\ RespondsNotLoaded(handleGetServers(currentSpec))
        /\ RespondsNotLoaded(handleGetAuthSchemes(currentSpec))
        /\ \A input \in QueryInputs :
            /\ FailsNotLoaded(getEndpoint(currentSpec, input.path, input.method))
            /\ FailsNotLoaded(getRequestSchema(currentSpec, input.path, input.method,
                                               "application/json"))
            /\ FailsNotLoaded(getResponseSchema(currentSpec, input.path, input.method,
                                                "200", "application/json"))
            /\ RespondsNotLoaded(handleGetEndpointDetails(currentSpec, input))
            /\ RespondsNotLoaded(handleGetRequestSchema(currentSpec, input))
            /\ RespondsNotLoaded(handleGetResponseSchema(currentSpec, input))
            /\ RespondsNotLoaded(handleGenerateSample(currentSpec, input))

\* a load has failed and the service is still not loaded
C1_Witness ==
    /\ ~loadedOk
    /\ last.op = "loadSpec"
    /\ Threw(last.out)
    /\ RespondsNotLoaded(handleListEndpoints(currentSpec, EmptyObject))

\* the cache holds an unexpired entry under the fixed key whose source is the
\* one options ask for
CachedFor(options) ==
    /\ CACHE_KEY \in DOMAIN cache
    /\ ~(now > cache[CACHE_KEY].expiresAt)
    /\ <<cache[CACHE_KEY].spec.source>> = RequestedSource(options)

\* C2: loadSpec called while the cache holds an unexpired entry under the
\* fixed key, recorded for the requested source, returns that cached spec,
\* makes it the active spec, does not invoke the load collaborator and does
\* not write the cache.
C2_CacheHitReturnsCached ==
    [][\A options \in LoadOptions :
          (CachedFor(options) /\ LoadStart(options)) =>
              /\ last'.op = "loadSpec"
              /\ last'.options = options
              /\ last'.out = Return(cache[CACHE_KEY].spec)
              /\ currentSpec' = cache[CACHE_KEY].spec
              /\ loaderCalls' = loaderCalls
              /\ calls' = calls
              /\ cache' = cache]_vars

\* a loadSpec was answered from the cache, some time after the entry was written
C2_Witness ==
    /\ last.op = "loadSpec"
    /\ last.seq = 0
    /\ last.out = Return(currentSpec)
    /\ CACHE_KEY \in DOMAIN cache
    /\ cache[CACHE_KEY].spec = currentSpec
    /\ now > currentSpec.loadedAt

ParsedParts == {"raw", "version", "info", "servers", "endpoints", "schemas", "securitySchemes"}

\* spec is what the normalizer builds from document alone
BuiltFrom(spec, document) ==
    /\ Pick(spec, ParsedParts) = NormalizedParts(document)
    /\ \A input \in QueryInputs :
        LET e == getEndpoint(spec, input.path, input.method)
        IN  ~Threw(e) =>
                /\ MapHas(document.paths, e.ret.path)
                /\ Has(MapGet(document.paths, e.ret.path), e.ret.method)

\* C3: when a loadSpec for a source succeeds while a spec built from another
\* source is active, the spec getSpec returns and the spec cached under the
\* fixed key are both the spec built from the new source; the cache never
\* holds more than one entry, and nothing of the replaced spec is reachable.
C3_LoadReplacesActiveSpec ==
    /\ [](Cardinality(DOMAIN cache) <= 1)
    /\ [][\A call \in calls, document \in Docs :
            (/\ ~IsNull(currentSpec)
             /\ <<currentSpec.source>> # RequestedSource(call.options)
             /\ LoadResolve(call, document)) =>
                LET B == getSpec(currentSpec')
                IN  /\ ~Threw(B)
                    /\ B.ret.source = RequestedSource(call.options)[1]
                    /\ BuiltFrom(B.ret, document)
                    /\ DOMAIN cache' = {CACHE_KEY}
                    /\ cache'[CACHE_KEY].spec = B.ret
                    /\ getEndpoints(currentSpec') = Return(NormalizedParts(document).endpoints)]_vars

\* a spec of one source and document has replaced a spec of another source
\* and document
C3_Witness ==
    /\ last.op = "loadSpec"
    /\ last.seq # 0
    /\ ~Threw(last.out)
    /\ ~IsNull(last.before)
    /\ last.before.source # currentSpec.source
    /\ last.before.info # currentSpec.info
    /\ cache[CACHE_KEY].spec = currentSpec

\* C4: when the load collaborator fails, loadSpec fails with the
\* collaborator's error, the active spec is what it was, no cache entry is
\* written and the collaborator is not invoked again.
C4_FailedLoadChangesNothing ==
    [][\A call \in calls :
          \A error \in LoaderErrors(call.options) :
              LoadReject(call, error) =>
                  /\ last'.out = Throw(error)
                  /\ currentSpec' = currentSpec
                  /\ getSpec(currentSpec') = getSpec(currentSpec)
                  /\ cache' = cache
                  /\ loaderCalls' = loaderCalls
                  /\ call \notin calls'
                  /\ calls' \subseteq calls]_vars

\* a load has failed while a spec was active, and that spec is still served
C4_Witness ==
    /\ last.op = "loadSpec"
    /\ Threw(last.out)
    /\ ~IsNull(last.before)
    /\ getSpec(currentSpec) = Return(last.before)
    /\ cache[CACHE_KEY].spec = last.before

\* call has been in flight together with an invocation for another source
Overlapped(call) ==
    \/ \E other \in calls :
          RequestedSource(other.options) # RequestedSource(call.options)
    \/ /\ ~IsNull(currentSpec)
       /\ currentSpec.id > call.seq
       /\ <<currentSpec.source>> # RequestedSource(call.options)

\* C5: loadSpec calls for different sources that overlap are not serialized:
\* each one that completes becomes the active and the cached spec at that
\* moment, so the one completing last prevails whatever the order of issue,
\* and each call returns the spec built from its own source.
C5_LastCompletedLoadWins ==
    [][\A call \in calls, document \in Docs :
          (Overlapped(call) /\ LoadResolve(call, document)) =>
              /\ ~Threw(last'.out)
              /\ last'.seq = call.seq
              /\ last'.out.ret.source = RequestedSource(call.options)[1]
              /\ last'.out.ret.id = call.seq
              /\ Pick(last'.out.ret, ParsedParts) = NormalizedParts(document)
              /\ currentSpec' = last'.out.ret
              /\ cache'[CACHE_KEY].spec = last'.out.ret]_vars

\* the call issued first completed after the call issued second, and its
\* spec is the active and the cached one
C5_Witness ==
    /\ last.op = "loadSpec"
    /\ last.seq = 1
    /\ ~Threw(last.out)
    /\ ~IsNull(last.before)
    /\ last.before.id = 2
    /\ last.before.source # currentSpec.source
    /\ currentSpec = last.out.ret
    /\ cache[CACHE_KEY].spec = currentSpec

-----------------------------------------------------------------------------
(* The spec cache on its own: get, set, invalidate and clear applied to     *)
(* several keys, with and without a ttl, as time passes.                    *)

CacheKeys == {CACHE_KEY, "other_spec"}

CacheTtls == {<<>>, <<0>>, <<1>>}

CacheSpecs == {buildParsedSpec(DocPets, UrlSource, 0, 1)}

CacheSetOp(key, spec, ttlMs) ==
    /\ cache' = CacheSet(cache, key, spec, ttlMs, now)
    /\ written' = Written(written, key, spec, ttlMs, now)
    /\ last' = [op |-> "set", key |-> key]
    /\ UNCHANGED <<currentSpec, now, calls, loaderCalls, loadedOk, sampled>>
    /\ UNCHANGED validatorVars

CacheGetOp(key) ==
    /\ LET g == CacheGet(cache, key, now)
       IN  /\ cache' = g.cache
           /\ last' = [op |-> "get", key |-> key, out |-> g.res]
    /\ UNCHANGED <<currentSpec, now, calls, loaderCalls, loadedOk, written, sampled>>
    /\ UNCHANGED validatorVars

CacheInvalidateOp(key) ==
    /\ LET g == CacheInvalidate(cache, key)
       IN  /\ cache' = g.cache
           /\ last' = [op |-> "invalidate", key |-> key, out |-> JBool(g.res)]
    /\ written' = [k \in (DOMAIN written) \ {key} |-> written[k]]
    /\ UNCHANGED <<currentSpec, now, calls, loaderCalls, loadedOk, sampled>>
    /\ UNCHANGED validatorVars

CacheClearOp ==
    /\ cache' = CacheClear(cache)
    /\ written' = <<>>
    /\ last' = [op |-> "clear"]
    /\ UNCHANGED <<currentSpec, now, calls, loaderCalls, loadedOk, sampled>>
    /\ UNCHANGED validatorVars

CacheNext ==
    \/ \E key \in CacheKeys, spec \in CacheSpecs, ttlMs \in CacheTtls : CacheSetOp(key, spec, ttlMs)
    \/ \E key \in CacheKeys : CacheGetOp(key)
    \/ \E key \in CacheKeys : CacheInvalidateOp(key)
    \/ CacheClearOp
    \/ \E d \in TickSteps : Tick(d)

CacheSpec == Init /\ [][CacheNext]_vars

\* the time up to which the entry of a recorded set may be served
ExpiryOf(w) == w.at + (IF w.ttlMs = <<>> THEN 3600000 ELSE w.ttlMs[1])

-----------------------------------------------------------------------------
(* The accessors of a loaded service: the service holds the spec of one of  *)
(* the query documents, loaded at time 0, and is asked for endpoints,       *)
(* request schemas and response schemas.                                    *)

LookupPaths == {"pets", "/pets", "owners"}

LookupMethods == {"post", "POST", "Post", "pOsT", "get", "put"}

SchemaPaths == {"/pets", "owners"}

StatusCodes == {"200", "201", "404"}

\* an optional preferredContentType
Preferences == {<<>>, <<"application/xml">>}

QueryInit ==
    /\ \E document \in QueryDocs :
        LET spec == buildParsedSpec(document, UrlSource, 0, 1)
        IN  /\ currentSpec = spec
            /\ cache = CacheSet(<<>>, CACHE_KEY, spec, <<>>, 0)
            /\ written = Written(<<>>, CACHE_KEY, spec, <<>>, 0)
            /\ last = [op |-> "loadSpec", options |-> [url |-> UrlSource], seq |-> 1,
                       before |-> JsNull, out |-> Return(spec)]
    /\ now = 0
    /\ calls = {}
    /\ loaderCalls = 1
    /\ loadedOk = TRUE
    /\ sampled = JsNull
    /\ validatorCache = <<>>
    /\ compiled = <<>>

\* the default of an omitted preferredContentType
Preferred(preference) == IF preference = <<>> THEN "application/json" ELSE preference[1]

GetEndpoint(path, method) ==
    /\ last' = [op |-> "getEndpoint", path |-> path, method |-> method,
                out |-> getEndpoint(currentSpec, path, method)]
    /\ UNCHANGED <<currentSpec, cache, now, calls, loaderCalls, loadedOk, written, sampled>>
    /\ UNCHANGED validatorVars

GetRequestSchema(path, method, preference) ==
    /\ last' = [op |-> "getRequestSchema", path |-> path, method |-> method,
                preference |-> preference,
                out |-> getRequestSchema(currentSpec, path, method, Preferred(preference))]
    /\ UNCHANGED <<currentSpec, cache, now, calls, loaderCalls, loadedOk, written, sampled>>
    /\ UNCHANGED validatorVars

GetResponseSchema(path, method, statusCode, preference) ==
    /\ last' = [op |-> "getResponseSchema", path |-> path, method |-> method,
                statusCode |-> statusCode, preference |-> preference,
                out |-> getResponseSchema(currentSpec, path, method, statusCode,
                                          Preferred(preference))]
    /\ UNCHANGED <<currentSpec, cache, now, calls, loaderCalls, loadedOk, written, sampled>>
    /\ UNCHANGED validatorVars

QueryNext ==
    \/ \E path \in LookupPaths, method \in LookupMethods : GetEndpoint(path, method)
    \/ \E path \in SchemaPaths, preference \in Preferences :
          GetRequestSchema(path, "post", preference)
    \/ \E path \in SchemaPaths, statusCode \in StatusCodes, preference \in Preferences :
          GetResponseSchema(path, "post", statusCode, preference)

QuerySpec == QueryInit /\ [][QueryNext]_vars

\* pattern, in which every X stands for one digit, matches code
WildcardMatches(pattern, code) ==
    /\ Len(pattern) = Len(code)
    /\ \E i \in 1..Len(pattern) : CharAt(pattern, i) = "X"
    /\ \A i \in 1..Len(pattern) :
          IF CharAt(pattern, i) = "X" THEN IsDigit(CharAt(code, i))
          ELSE CharAt(pattern, i) = CharAt(code, i)

\* the key the resolution order selects among keys, as an optional value
ExpectedKey(keys, code) ==
    IF code \in Range(keys) THEN <<code>>
    ELSE IF \E i \in 1..Len(keys) : WildcardMatches(keys[i], code)
    THEN <<keys[CHOOSE i \in 1..Len(keys) :
                   /\ WildcardMatches(keys[i], code)
                   /\ \A j \in 1..(i - 1) : ~WildcardMatches(keys[j], code)]>>
    ELSE IF "default" \in Range(keys) THEN <<"default">>
    ELSE <<>>

ExpectedContentType(contentTypes, preferred) ==
    IF preferred \in Range(contentTypes) THEN <<preferred>>
    ELSE IF Len(contentTypes) > 0 THEN <<contentTypes[1]>>
    ELSE <<>>

\* result carries the content type the rule picks in content, and the schema
\* that owner declares under that content type
SelectedFrom(result, content, owner, preference) ==
    LET contentType == ExpectedContentType(MapKeys(content), Preferred(preference))
    IN  /\ contentType # <<>>
        /\ result.contentType = contentType[1]
        /\ result.schema = MapGet(content, contentType[1]).schema
        /\ result.schema.title = owner \o " " \o contentType[1]

-----------------------------------------------------------------------------
(* Sample generation among the other operations of the service: samples    *)
(* are generated for schemas given directly and, through the generate_sample *)
(* tool, for the request schema of an endpoint of the active spec, while    *)
(* specs are loaded and cleared and time passes.                            *)

\* the direct calls: <<schema, options>>
SampleCalls ==
    {<<PetSchema, EmptyObject>>,
     <<PetSchema, [includeOptional |-> TRUE]>>,
     <<[ptr |-> "Node"], [maxDepth |-> 2]>>,
     <<[type |-> "string", format |-> "date-time"], EmptyObject>>,
     <<[type |-> "array", minItems |-> 2, items |-> [type |-> "integer", maximum |-> 9]],
       [maxArrayItems |-> 1]>>,
     <<[allOf |-> <<PetSchema,
                    [type |-> "object", required |-> <<"tag">>,
                     properties |-> <<<<"tag", [types |-> <<"string", "null">>,
                                                minLength |-> 8]>>>>]>>],
       EmptyObject>>}

SampleInputs ==
    {[path |-> "/pets", method |-> "post"],
     [path |-> "pets", method |-> "post", includeOptional |-> TRUE],
     [path |-> "/pets", method |-> "get"]}

\* generateSample(schema, options), called directly
GenerateSample(schema, options) ==
    /\ LET out == generateSample(schema, options, 0)
       IN  /\ last' = [op |-> "generateSample", schema |-> schema, options |-> options,
                       out |-> out]
           /\ sampled' = IF IsNull(sampled)
                         THEN [schema |-> schema, options |-> options, out |-> out]
                         ELSE sampled
    /\ UNCHANGED <<currentSpec, cache, now, calls, loaderCalls, loadedOk, written>>
    /\ UNCHANGED validatorVars

\* the generate_sample tool
HandleGenerateSample(input) ==
    /\ last' = [op |-> "generate_sample", input |-> input,
                out |-> handleGenerateSample(currentSpec, input)]
    /\ UNCHANGED <<currentSpec, cache, now, calls, loaderCalls, loadedOk, written, sampled>>
    /\ UNCHANGED validatorVars

SampleNext ==
    \/ \E call \in SampleCalls : GenerateSample(call[1], call[2])
    \/ \E input \in SampleInputs : HandleGenerateSample(input)
    \/ LoadStart([url |-> UrlSource])
    \/ \E call \in calls : LoadResolve(call, DocPets)
    \/ Clear
    \/ Tick(1)

SampleSpec == Init /\ [][SampleNext]_vars

-----------------------------------------------------------------------------
(* Sample generation as a function of its arguments: a call               *)
(* generateSample(schema, options, depth) is drawn from the families below *)
(* and then made.                                                           *)

\* schema nodes carrying any combination of the keywords generateSample
\* looks at, each with a value that tells which keyword produced the sample
KeywordSchemas ==
    {ex @@ df @@ cn @@ en @@ nu @@ al @@ on @@ an @@ ty :
        ex \in {EmptyObject, [example |-> JStr("example")], [example |-> JsNull]},
        df \in {EmptyObject, [default |-> JStr("default")]},
        cn \in {EmptyObject, [const |-> JStr("const")]},
        en \in {EmptyObject, [enum |-> <<>>], [enum |-> <<JStr("enum"), JStr("other")>>]},
        nu \in {EmptyObject, [nullable |-> TRUE]},
        al \in {EmptyObject, [allOf |-> <<[const |-> JObj(<<<<"allOf", JBool(TRUE)>>>>)]>>]},
        on \in {EmptyObject, [oneOf |-> <<[const |-> JStr("oneOf")]>>]},
        an \in {EmptyObject, [anyOf |-> <<[const |-> JStr("anyOf")]>>]},
        ty \in {EmptyObject, [type |-> "integer", minimum |-> 7]}}

KeywordCalls ==
    {[schema |-> schema, options |-> options, depth |-> depth] :
        schema \in KeywordSchemas,
        options \in {EmptyObject, [maxDepth |-> 0]},
        depth \in {0, 1}}

\* object nodes: with and without a type, properties, required names (one of
\* them not declared), a nested object property, and nullable
NestedObjects ==
    {ty @@ nu @@ rq @@ [properties |-> <<<<"x", [type |-> "boolean"]>>,
                                         <<"y", [type |-> "string"]>>>>] :
        ty \in {EmptyObject, [type |-> "object"]},
        nu \in {EmptyObject, [nullable |-> TRUE]},
        rq \in {EmptyObject, [required |-> <<"x">>]}}

ObjectSchemas ==
    {ty @@ nu @@ rq @@ pr :
        ty \in {EmptyObject, [type |-> "object"]},
        nu \in {EmptyObject, [nullable |-> TRUE]},
        rq \in {EmptyObject} \cup
                {[required |-> names] :
                    names \in {<<>>, <<"a">>, <<"b">>, <<"b", "a">>, <<"z", "a">>}},
        pr \in {EmptyObject, [properties |-> <<<<"a", [type |-> "string"]>>>>]} \cup
                {[properties |-> <<<<"a", [type |-> "string"]>>, <<"b", nested>>,
                                   <<"c", [type |-> "integer"]>>>>] :
                    nested \in NestedObjects}}

ObjectCalls ==
    {[schema |-> schema, options |-> io @@ md, depth |-> 0] :
        schema \in ObjectSchemas,
        io \in {EmptyObject, [includeOptional |-> FALSE], [includeOptional |-> TRUE]},
        md \in {EmptyObject, [maxDepth |-> 0]}}

\* composition branches: two objects that share the key id, a string, an
\* array and a number
Branches ==
    {[type |-> "object", required |-> <<"name", "id">>,
      properties |-> <<<<"name", [type |-> "string"]>>,
                       <<"id", [type |-> "integer", minimum |-> 1]>>>>],
     [type |-> "object", required |-> <<"id", "tag">>,
      properties |-> <<<<"id", [type |-> "integer", minimum |-> 5]>>,
                       <<"tag", [type |-> "string", format |-> "uuid"]>>>>],
     [type |-> "string"],
     [type |-> "array", items |-> [type |-> "boolean"]],
     [type |-> "number", maximum |-> 8]}

MaxBranches == 3

BranchLists == UNION {[1..n -> Branches] : n \in 1..MaxBranches}

CompositionSchemas ==
    {ty @@ nu @@ co :
        ty \in {EmptyObject, [type |-> "object"]},
        nu \in {EmptyObject, [nullable |-> TRUE]},
        co \in {[allOf |-> list] : list \in BranchLists}
                \cup {[oneOf |-> list] : list \in BranchLists}
                \cup {[anyOf |-> list] : list \in BranchLists}
                \cup {[allOf |-> <<b>>, oneOf |-> <<c>>] : b, c \in Branches}
                \cup {[oneOf |-> <<b>>, anyOf |-> <<c>>] : b, c \in Branches}}

CompositionCalls ==
    {[schema |-> schema, options |-> options, depth |-> 0] :
        schema \in CompositionSchemas,
        options \in {EmptyObject, [maxDepth |-> 0]}}

MaxConfiguredDepth == 3

\* calls on the cyclic schemas, with the default and with a configured
\* maximum depth
CyclicCalls ==
    {[schema |-> [ptr |-> name], options |-> options, depth |-> 0] :
        name \in DOMAIN SchemaHeap,
        options \in {EmptyObject} \cup {[maxDepth |-> d] : d \in 0..MaxConfiguredDepth}}

\* array nodes: with and without items, minItems and the maxArrayItems
\* option
ArraySchemas ==
    {[type |-> "array"] @@ it @@ mi :
        it \in {EmptyObject,
                [items |-> [type |-> "string", format |-> "date"]],
                [items |-> [type |-> "object", required |-> <<"id">>,
                            properties |-> <<<<"id", [type |-> "integer", minimum |-> 3]>>,
                                             <<"tag", [type |-> "string"]>>>>]]},
        mi \in {EmptyObject} \cup {[minItems |-> n] : n \in 0..3}}

ArrayCalls ==
    {[schema |-> schema, options |-> ma @@ io, depth |-> 0] :
        schema \in ArraySchemas,
        ma \in {EmptyObject, [maxArrayItems |-> 1], [maxArrayItems |-> 3]},
        io \in {EmptyObject, [includeOptional |-> TRUE]}}

\* integer nodes with a minimum, a maximum, both (minimum <= maximum) or
\* neither, negative bounds among them
IntegerBounds == {-5, -4, 0, 3, 7}

IntegerSchemas ==
    {[type |-> "integer"]}
    \cup {[type |-> "integer", minimum |-> n] : n \in IntegerBounds}
    \cup {[type |-> "integer", maximum |-> n] : n \in IntegerBounds}
    \cup {[type |-> "integer", minimum |-> b[1], maximum |-> b[2]] :
            b \in {c \in IntegerBounds \X IntegerBounds : c[1] <= c[2]}}

IntegerCalls ==
    {[schema |-> schema, options |-> EmptyObject, depth |-> 0] : schema \in IntegerSchemas}

GenCalls ==
    KeywordCalls \cup ObjectCalls \cup CompositionCalls \cup CyclicCalls \cup ArrayCalls
        \cup IntegerCalls

GenInit ==
    /\ currentSpec = JsNull
    /\ cache = <<>>
    /\ now = 0
    /\ calls = {}
    /\ loaderCalls = 0
    /\ loadedOk = FALSE
    /\ written = <<>>
    /\ sampled = JsNull
    /\ \E call \in GenCalls : last = call @@ [op |-> "call"]
    /\ validatorCache = <<>>
    /\ compiled = <<>>

\* generateSample(schema, options, depth)
Generate ==
    /\ last.op = "call"
    /\ last' = [last EXCEPT !.op = "generateSample"]
                  @@ [out |-> generateSample(last.schema, last.options, last.depth)]
    /\ UNCHANGED <<currentSpec, cache, now, calls, loaderCalls, loadedOk, written, sampled>>
    /\ UNCHANGED validatorVars

GenNext == Generate

GenSpec == GenInit /\ [][GenNext]_vars

Generated == last.op = "generateSample"

\* the maximum depth a call is made with
MaxDepthOf(options) == IF Has(options, "maxDepth") THEN options.maxDepth ELSE 10

RuleOrder ==
    <<"example", "default", "const", "enum", "nullable", "allOf", "oneOf", "anyOf", "type">>

\* the rule applies to the node
RuleApplies(schema, rule) ==
    CASE rule = "enum" -> Has(schema, "enum") /\ schema.enum # <<>>
      [] rule = "nullable" ->
            Has(schema, "nullable") /\ schema.nullable /\ ~Has(schema, "type")
      [] rule \in {"allOf", "oneOf", "anyOf"} -> Has(schema, rule) /\ schema[rule] # <<>>
      [] OTHER -> Has(schema, rule)

\* what the rule yields for the node
RuleYields(schema, options, depth, rule) ==
    CASE rule \in {"example", "default", "const"} -> schema[rule]
      [] rule = "enum" -> schema.enum[1]
      [] rule = "nullable" -> JsNull
      [] rule = "allOf" ->
            LET branch == generateSample(schema.allOf[1], options, depth + 1)
            IN  IF IsNull(branch) THEN JObj(<<>>) ELSE branch
      [] rule \in {"oneOf", "anyOf"} -> generateSample(schema[rule][1], options, depth + 1)
      [] rule = "type" -> JNum(schema.minimum)

ObjectShaped(schema) ==
    IF Has(schema, "type") THEN schema.type = "object" ELSE Has(schema, "properties")

\* without example, default, const, enum or composition
Keywordless(schema) ==
    DOMAIN schema \cap {"example", "default", "const", "enum", "allOf", "oneOf", "anyOf"} = {}

NullableUntyped(schema) ==
    Has(schema, "nullable") /\ schema.nullable /\ ~Has(schema, "type")

\* the declared properties a sample is to have
ExpectedKeys(schema, options) ==
    LET declared == IF Has(schema, "properties") THEN Range(MapKeys(schema.properties))
                    ELSE {}
        required == IF Has(schema, "required") THEN Range(schema.required) ELSE {}
    IN  IF Has(options, "includeOptional") /\ options.includeOptional THEN declared
        ELSE declared \cap required

RECURSIVE KeysAsDeclared(_, _, _, _, _)
\* the sample value of the node schema, generated at the given depth, has
\* the expected key set, and so has every object node below it; nullable
\* says whether the statement speaks about nullable nodes without a type too
KeysAsDeclared(schema, value, options, depth, nullable) ==
    (ObjectShaped(schema) /\ Keywordless(schema) /\ (nullable \/ ~NullableUntyped(schema))
        /\ depth <= MaxDepthOf(options)) =>
        /\ Has(value, "obj")
        /\ Range(MapKeys(value.obj)) = ExpectedKeys(schema, options)
        /\ \A key \in ExpectedKeys(schema, options) :
              KeysAsDeclared(MapGet(schema.properties, key), MapGet(value.obj, key),
                             options, depth + 1, nullable)

\* C12: for an object-shaped schema node (type object, or type omitted but
\* properties present) without example, default, const, enum or composition,
\* that is not nullable with its type omitted and is reached within the
\* maximum depth, the key set of the sample is exactly the declared
\* properties listed in required when includeOptional is false, and exactly
\* all declared properties when it is true; the same at every nesting level.
C12_ObjectKeysFollowRequired ==
    (Generated /\ last.schema \in ObjectSchemas) =>
        KeysAsDeclared(last.schema, last.out, last.options, last.depth, FALSE)

\* C12 as stated, for every object-shaped node without example, default,
\* const, enum or composition, nullable or not
C12_AsStated ==
    (Generated /\ last.schema \in ObjectSchemas) =>
        KeysAsDeclared(last.schema, last.out, last.options, last.depth, TRUE)

\* without includeOptional a sample kept the required properties a and b of
\* three declared ones and, in the nested object b, the required x of two
C12_Witness ==
    /\ Generated
    /\ ~Has(last.options, "includeOptional")
    /\ Has(last.schema, "properties")
    /\ Len(last.schema.properties) = 3
    /\ Has(last.out, "obj")
    /\ MapKeys(last.out.obj) = <<"a", "b">>
    /\ Has(MapGet(last.out.obj, "b"), "obj")
    /\ MapKeys(MapGet(last.out.obj, "b").obj) = <<"x">>

\* the keys a branch sample contributes to a merge
KeysProduced(sample) ==
    IF IsObjectLike(sample) THEN Range(MapKeys(OwnEntries(sample))) ELSE {}

\* the sample is the merge of the samples of the branches
MergesBranches(out, branches, options, depth) ==
    LET samples == [i \in 1..Len(branches) |-> generateSample(branches[i], options, depth + 1)]
        produced == UNION {KeysProduced(samples[i]) : i \in 1..Len(branches)}
    IN  /\ Has(out, "obj")
        /\ Range(MapKeys(out.obj)) = produced
        /\ \A key \in produced :
              LET having == {i \in 1..Len(branches) : key \in KeysProduced(samples[i])}
                  latest == CHOOSE i \in having : \A j \in having : j <= i
              IN  MapGet(out.obj, key) = MapGet(OwnEntries(samples[latest]), key)

\* the sample of a composition: nullable says whether the statement speaks
\* about nullable nodes without a type too
ComposesBranches(schema, out, options, depth, nullable) ==
    (depth <= MaxDepthOf(options) /\ (nullable \/ ~NullableUntyped(schema))) =>
        IF Has(schema, "allOf") THEN MergesBranches(out, schema.allOf, options, depth)
        ELSE IF Has(schema, "oneOf")
        THEN out = generateSample(schema.oneOf[1], options, depth + 1)
        ELSE out = generateSample(schema.anyOf[1], options, depth + 1)

\* C13: for a schema with a non-empty allOf and no example, default, const
\* or enum, that is not nullable with its type omitted, generateSample
\* returns one object that contains every key produced by any branch, the
\* value of a key produced by several branches being the one of the latest
\* such branch; for such a schema with oneOf (and no allOf), or with anyOf
\* (and neither), it returns exactly the sample of the first listed branch,
\* whatever the other branches are.
C13_CompositionMergesOrTakesFirst ==
    (Generated /\ last.schema \in CompositionSchemas) =>
        ComposesBranches(last.schema, last.out, last.options, last.depth, FALSE)

\* C13 as stated, for every schema with a composition and no example,
\* default, const or enum, nullable or not
C13_AsStated ==
    (Generated /\ last.schema \in CompositionSchemas) =>
        ComposesBranches(last.schema, last.out, last.options, last.depth, TRUE)

\* two object branches that both produce id were merged, id being the one
\* of the second branch
C13_Witness ==
    /\ Generated
    /\ Has(last.schema, "allOf")
    /\ Len(last.schema.allOf) = 2
    /\ last.out = JObj(<<<<"name", JStr("string")>>, <<"id", JNum(5)>>,
                         <<"tag", JStr("550e8400-e29b-41d4-a716-446655440000")>>>>)

RECURSIVE Nesting(_)
\* the number of objects and arrays nested in one another in a value
Nesting(value) ==
    IF ~IsObjectLike(value) THEN 0
    ELSE LET inner == {Nesting(entry[2]) : entry \in Range(OwnEntries(value))}
         IN  1 + (IF inner = {} THEN 0 ELSE CHOOSE n \in inner : \A m \in inner : m <= n)

RECURSIVE Innermost(_)
\* what a chain of objects or arrays with one nested member each ends in
Innermost(value) ==
    IF ~IsObjectLike(value) THEN value
    ELSE LET nested == {entry \in Range(OwnEntries(value)) :
                            IsObjectLike(entry[2]) \/ IsNull(entry[2])}
         IN  IF nested = {} THEN value ELSE Innermost((CHOOSE entry \in nested : TRUE)[2])

\* C14: generateSample returns on a cyclic schema whose required object
\* property, items or composition branch refers back to the schema itself:
\* a node reached beyond the maximum depth (10 unless configured) yields the
\* null placeholder, so no object or array of the result lies deeper than
\* the maximum depth, and the objects and arrays of a self-referential chain
\* end in null.
C14_DepthGuardBoundsRecursion ==
    (Generated /\ Has(last.schema, "ptr")) =>
        /\ Nesting(last.out) <= MaxDepthOf(last.options) + 1
        /\ last.schema.ptr \in {"Node", "List", "Any", "Either"} =>
              IsNull(Innermost(last.out))

\* with the default options the cyclic Node schema gave eleven objects
\* nested in one another (depths 0 to 10), the innermost with next null
C14_Witness ==
    /\ Generated
    /\ last.schema = [ptr |-> "Node"]
    /\ last.options = EmptyObject
    /\ Nesting(last.out) = 11
    /\ IsNull(Innermost(last.out))

-----------------------------------------------------------------------------
(* The normalizer as a function of the document: a document is drawn from  *)
(* the family below and buildParsedSpec is applied to it.                   *)

Param(name, in, description) ==
    [name |-> name, in |-> in, description |-> description, schema |-> [type |-> "string"]]

PathLevelParams ==
    {<<>>,
     <<Param("id", "path", "path-level")>>,
     <<Param("id", "path", "path-level"), Param("limit", "query", "path-level")>>,
     <<Param("id", "query", "path-level"), Param("id", "header", "path-level")>>}

OpLevelParams ==
    {<<>>,
     <<Param("id", "path", "operation")>>,
     <<Param("limit", "query", "operation"), Param("id", "cookie", "operation")>>,
     <<Param("limit", "query", "first"), Param("limit", "query", "second")>>}

\* Swagger 2.0 operation parameters: a body parameter among the others
Swagger2Params ==
    {<<[name |-> "payload", in |-> "body", schema |-> PetSchema]>>,
     <<[name |-> "file", in |-> "formData", type |-> "string"],
       [name |-> "payload", in |-> "body", schema |-> PetSchema],
       [name |-> "file", in |-> "query", type |-> "string"]>>}

\* Swagger 2.0 path-level parameters: a body parameter of another schema,
\* alone and after a path parameter
Swagger2PathParams ==
    {<<[name |-> "shared", in |-> "body", required |-> TRUE,
        schema |-> [type |-> "string"]]>>,
     <<[name |-> "id", in |-> "path", required |-> TRUE, type |-> "string"],
       [name |-> "shared", in |-> "body", description |-> "path-level",
        schema |-> [type |-> "array", items |-> [type |-> "integer"]]]>>}

\* Swagger 2.0 operation parameters without a body parameter
Swagger2Plain ==
    {<<>>, <<[name |-> "file", in |-> "formData", type |-> "string"]>>}

MethodSets == {{"get"}, {"get", "post"}, {"trace", "delete"}}

Operation(opParams) ==
    [responses |-> <<<<"200", [description |-> "ok"]>>>>]
    @@ Opt(opParams # <<>>, "parameters", opParams)

\* a path item: its operations, its parameters and keys that are no method
PathItem(methods, pathParams, opParams, others) ==
    [method \in methods |-> Operation(opParams)]
    @@ Opt(pathParams # <<>>, "parameters", pathParams)
    @@ [key \in others |-> Operation(<<>>)]

PathItems ==
    {PathItem(methods, pathParams, opParams, others) :
        methods \in MethodSets, pathParams \in PathLevelParams,
        opParams \in OpLevelParams, others \in {{}, {"connect", "x-internal"}}}

\* the keys of the paths object: paths, and a specification extension
PathKeys == {"/pets", "/pets/{id}", "x-hidden"}

NormDocs ==
    {[openapi |-> "3.0.0", info |-> [title |-> "T", version |-> "1"],
      paths |-> <<<<path, item>>>>] : path \in PathKeys, item \in PathItems}
    \cup
    {[openapi |-> "3.0.0", info |-> [title |-> "T", version |-> "1"],
      paths |-> <<<<keys[1], PathItem({"get"}, <<>>, <<>>, {})>>, <<keys[2], item>>>>] :
        keys \in {ks \in PathKeys \X PathKeys : ks[1] # ks[2]}, item \in PathItems}
    \cup
    {[swagger |-> "2.0", info |-> [title |-> "T", version |-> "1"],
      paths |-> <<<<"/upload", PathItem({"post"}, pathParams, opParams, {})>>>>] :
        pathParams \in PathLevelParams, opParams \in Swagger2Params}
    \cup
    {[swagger |-> "2.0", info |-> [title |-> "T", version |-> "1"],
      paths |-> <<<<"/upload", PathItem({"post", "put"}, pathParams, opParams, {})>>>>] :
        pathParams \in Swagger2PathParams, opParams \in Swagger2Params \cup Swagger2Plain}

NormInit ==
    /\ currentSpec = JsNull
    /\ cache = <<>>
    /\ now = 0
    /\ calls = {}
    /\ loaderCalls = 0
    /\ loadedOk = FALSE
    /\ written = <<>>
    /\ sampled = JsNull
    /\ \E document \in NormDocs : last = [op |-> "document", document |-> document]
    /\ validatorCache = <<>>
    /\ compiled = <<>>

\* buildParsedSpec(document, source)
BuildParsedSpec ==
    /\ last.op = "document"
    /\ currentSpec' = buildParsedSpec(last.document, UrlSource, now, 1)
    /\ last' = [last EXCEPT !.op = "buildParsedSpec"]
    /\ UNCHANGED <<cache, now, calls, loaderCalls, loadedOk, written, sampled>>
    /\ UNCHANGED validatorVars

NormNext == BuildParsedSpec

NormSpec == NormInit /\ [][NormNext]_vars

Built == last.op = "buildParsedSpec"

\* the parameters of the document that an endpoint was built from, those
\* with location body (the request body of Swagger 2.0) left out
RawParams(document, endpoint, level) ==
    LET item == MapGet(document.paths, endpoint.path)
        params == IF level = "path" THEN OrElse(item, "parameters", <<>>)
                  ELSE OrElse(item[endpoint.method], "parameters", <<>>)
    IN  SelectSeq(params, LAMBDA p : p.in # "body")

\* the (location, name) pair of a parameter
PairOf(p) == <<p.in, p.name>>

\* the last parameter of a list with the pair of the i-th
LastWithPair(params, i) ==
    params[CHOOSE j \in i..Len(params) :
              /\ PairOf(params[j]) = PairOf(params[i])
              /\ \A k \in (j + 1)..Len(params) : PairOf(params[k]) # PairOf(params[i])]

\* C15: for every endpoint produced by the normalizer no two parameters
\* share the same (location, name) pair; a pair given at operation level
\* yields the operation-level parameter, also when the path level gives it
\* too; a pair given at path level only yields the path-level parameter; and
\* the endpoint has one parameter for every pair of the two lists (body
\* parameters of Swagger 2.0, which become the request body, apart).
C15_ParametersDeduplicated ==
    Built =>
        \A n \in 1..Len(currentSpec.endpoints) :
            LET endpoint == currentSpec.endpoints[n][2]
                params == endpoint.parameters
                pathLevel == RawParams(last.document, endpoint, "path")
                opLevel == RawParams(last.document, endpoint, "operation")
                opPairs == {PairOf(opLevel[i]) : i \in 1..Len(opLevel)}
                pathPairs == {PairOf(pathLevel[i]) : i \in 1..Len(pathLevel)}
            IN  /\ \A i, j \in 1..Len(params) : PairOf(params[i]) = PairOf(params[j]) => i = j
                /\ \A i \in 1..Len(opLevel) :
                      extractParameter(LastWithPair(opLevel, i)) \in Range(params)
                /\ \A i \in 1..Len(pathLevel) :
                      PairOf(pathLevel[i]) \notin opPairs =>
                          extractParameter(LastWithPair(pathLevel, i)) \in Range(params)
                /\ {PairOf(params[i]) : i \in 1..Len(params)} = opPairs \cup pathPairs

\* an endpoint whose path level gives (path, id) and (query, limit) and whose
\* operation gives (query, limit) and (cookie, id) has the three parameters,
\* limit being the operation's
C15_Witness ==
    /\ Built
    /\ \E n \in 1..Len(currentSpec.endpoints) :
          LET params == currentSpec.endpoints[n][2].parameters
          IN  /\ Len(params) = 3
              /\ [i \in 1..3 |-> <<params[i].in, params[i].name, params[i].description>>]
                    = <<<<"path", "id", "path-level">>, <<"query", "limit", "operation">>,
                        <<"cookie", "id", "operation">>>>

\* the (path, method) operations of a document among the eight recognized
\* methods
OperationsIn(document) ==
    {operation \in Range(MapKeys(document.paths)) \X Range(HTTP_METHODS) :
        Has(MapGet(document.paths, operation[1]), operation[2])}

\* C16: the endpoint index built by the normalizer has exactly one entry per
\* (path, method) operation of the document among the eight recognized
\* methods, and every entry (k, e) satisfies k = e.method + " " + e.path
\* with e.method lowercase and e.path beginning with a slash, so that
\* looking up an endpoint by its own path and method returns that endpoint.
C16_IndexKeyedByMethodAndPath ==
    Built =>
        LET endpoints == currentSpec.endpoints
        IN  /\ Len(endpoints) = Cardinality(OperationsIn(last.document))
            /\ \A operation \in OperationsIn(last.document) :
                  \E n \in 1..Len(endpoints) :
                      /\ endpoints[n][2].path = operation[1]
                      /\ endpoints[n][2].method = operation[2]
            /\ \A n \in 1..Len(endpoints) :
                  LET key == endpoints[n][1]
                      endpoint == endpoints[n][2]
                  IN  /\ key = endpoint.method \o " " \o endpoint.path
                      /\ endpoint.method = toLowerCase(endpoint.method)
                      /\ startsWith(endpoint.path, "/")
                      /\ getEndpoint(currentSpec, endpoint.path, endpoint.method)
                            = Return(endpoint)

-----------------------------------------------------------------------------
(* The validator over sequences of validatePayload and                      *)
(* clearValidatorCache calls.  compiled lists the compilations since the    *)
(* cache was last cleared.                                                  *)

\* schemas: the second serializes as the first does, the fourth has the
\* properties of the third in another order, the fifth does not compile
ValidatorSchemas ==
    { JObj(<< <<"type", JStr("string")>> >>),
      JObj(<< <<"type", JStr("string")>>, <<"minLength", Undefined>> >>),
      JObj(<< <<"type", JStr("object")>>, <<"required", JArr(<<JStr("a")>>)>> >>),
      JObj(<< <<"required", JArr(<<JStr("a")>>)>>, <<"type", JStr("object")>> >>),
      JObj(<< <<"type", JStr("strin")>> >>) }

ValidatorPayloads ==
    { JStr("x"), JNum(1), JObj(<< <<"a", JNum(1)>> >>), JObj(<<>>) }

ValidatorInit ==
    /\ currentSpec = JsNull
    /\ cache = <<>>
    /\ now = 0
    /\ calls = {}
    /\ loaderCalls = 0
    /\ loadedOk = FALSE
    /\ written = <<>>
    /\ sampled = JsNull
    /\ last = [op |-> "init"]
    /\ validatorCache = <<>>
    /\ compiled = <<>>

\* validatePayload(payload, schema)
ValidatePayload ==
    \E schema \in ValidatorSchemas, payload \in ValidatorPayloads :
        LET got == getValidator(validatorCache, schema, Len(compiled) + 1)
            cacheKey == JSONstringify(schema)
        IN  /\ validatorCache' = IF Threw(got) THEN validatorCache
                                 ELSE got.ret.validatorCache
            /\ compiled' = IF ~Threw(got) /\ got.ret.compiled
                           THEN Append(compiled, [key |-> cacheKey, schema |-> schema,
                                                  id |-> got.ret.validator.id])
                           ELSE compiled
            /\ last' = [op |-> "validatePayload", schema |-> schema, payload |-> payload,
                        cachedBefore |-> MapHas(validatorCache, cacheKey),
                        got |-> got, out |-> validatePayload(payload, got)]
            /\ UNCHANGED <<currentSpec, cache, now, calls, loaderCalls, loadedOk, written,
                           sampled>>

\* clearValidatorCache()
ClearValidatorCache ==
    /\ validatorCache' = <<>>
    /\ compiled' = <<>>
    /\ last' = [op |-> "clearValidatorCache"]
    /\ UNCHANGED <<currentSpec, cache, now, calls, loaderCalls, loadedOk, written, sampled>>

ValidatorNext == ValidatePayload \/ ClearValidatorCache

ValidatorSpec == ValidatorInit /\ [][ValidatorNext]_vars

Validated == last.op = "validatePayload" /\ ~Threw(last.got)

\* C17: since the cache was last cleared no serialization has been compiled
\* twice; every cached evaluator is the one compiled for its key, from a
\* schema that serializes to that key; a validatePayload call whose schema's
\* serialization was cached compiled nothing and used the cached evaluator;
\* and the evaluator a call used was compiled from a schema with the
\* serialization of the schema the call was given.
C17_EvaluatorCompiledOncePerSerialization ==
    /\ \A i, j \in 1..Len(compiled) : compiled[i].key = compiled[j].key => i = j
    /\ \A i \in 1..Len(validatorCache) :
        /\ JSONstringify(validatorCache[i][2].compiledFrom) = validatorCache[i][1]
        /\ \E j \in 1..Len(compiled) :
            /\ compiled[j].key = validatorCache[i][1]
            /\ compiled[j].id = validatorCache[i][2].id
            /\ compiled[j].schema = validatorCache[i][2].compiledFrom
    /\ Validated =>
        /\ JSONstringify(last.got.ret.validator.compiledFrom) = JSONstringify(last.schema)
        /\ last.got.ret.validator = MapGet(validatorCache, JSONstringify(last.schema))
        /\ last.cachedBefore => ~last.got.ret.compiled
        /\ last.out = Return([valid |-> EvaluatorErrors(last.got.ret.validator,
                                                        last.payload) = <<>>,
                              errors |-> EvaluatorErrors(last.got.ret.validator,
                                                         last.payload)])

\* a call reused the evaluator compiled from another schema object with the
\* same serialization, while a second serialization was cached as well
C17_Witness ==
    /\ Validated
    /\ last.cachedBefore
    /\ last.schema # last.got.ret.validator.compiledFrom
    /\ Len(compiled) >= 2

-----------------------------------------------------------------------------
(* The tools that work on the request body of an endpoint: generate_sample, *)
(* validate_payload and generate_curl, asked about endpoints with and       *)
(* without a request body of the spec the service holds.                    *)

\* a document whose operations carry parameters and security requirements
\* and, one of them, a request body
DocOrders ==
    [openapi |-> "3.0.1",
     info |-> [title |-> "Orders", version |-> "3"],
     servers |-> <<[url |-> "https://orders.test/"]>>,
     paths |-> <<
        <<"/orders/{id}",
          [parameters |-> <<[name |-> "id", in |-> "path", required |-> TRUE,
                             schema |-> [type |-> "integer"]]>>,
           get |-> [parameters |-> <<[name |-> "limit", in |-> "query", required |-> TRUE,
                                      schema |-> [type |-> "integer", default |-> JNum(10)]],
                                     [name |-> "X-Trace", in |-> "header", required |-> TRUE,
                                      example |-> JStr("t 1")],
                                     [name |-> "sort", in |-> "query",
                                      schema |-> [type |-> "string",
                                                  enum |-> <<JStr("a<b"), JStr("b")>>]]>>,
                    security |-> <<<<<<"key", <<>>>>>>>>,
                    responses |-> <<<<"200", [description |-> "ok"]>>>>],
           put |-> [requestBody |-> [content |-> <<<<"application/json",
                                                     [schema |-> PetSchema]>>>>],
                    responses |-> <<<<"200", [description |-> "ok"]>>>>],
           patch |-> [responses |-> <<<<"204", [description |-> "done"]>>>>]]>>>>]

BodyDocs == {DocUsers, DocOrders}

BodyPaths == {"/users", "orders/{id}"}

BodyMethodsAsked == {"get", "PUT", "patch"}

Payloads == {JStr("{\"name\":\"rex\"}"), JObj(<<>>)}

\* the options of generate_curl: none; a base url, a token and optional
\* parameters; path parameters as the text of an object and query
\* parameters as an object; the text of null for the path parameters
CurlOptions ==
    {EmptyObject,
     [baseUrl |-> "http://localhost:8080/", authToken |-> "s3cret", authType |-> "api-key",
      includeOptional |-> TRUE],
     [pathParams |-> JStr("{\"id\":\"a b\"}"),
      queryParams |-> JObj(<< <<"limit", JNum(5)>>, <<"q", JStr("a&b")>> >>)],
     [pathParams |-> JStr("null")]}

BodyInit ==
    /\ \E document \in BodyDocs :
        LET spec == buildParsedSpec(document, FileSource, 0, 1)
        IN  /\ currentSpec = spec
            /\ cache = CacheSet(<<>>, CACHE_KEY, spec, <<>>, 0)
            /\ written = Written(<<>>, CACHE_KEY, spec, <<>>, 0)
            /\ last = [op |-> "loadSpec", options |-> [filePath |-> FileSource], seq |-> 1,
                       before |-> JsNull, out |-> Return(spec)]
    /\ now = 0
    /\ calls = {}
    /\ loaderCalls = 1
    /\ loadedOk = TRUE
    /\ sampled = JsNull
    /\ validatorCache = <<>>
    /\ compiled = <<>>

\* the validate_payload tool
HandleValidatePayload(input) ==
    \E handled \in {handleValidatePayload(currentSpec, input, validatorCache,
                                          Len(compiled) + 1)} :
        /\ last' = [op |-> "validate_payload", input |-> input, out |-> handled.response]
        /\ validatorCache' = handled.validatorCache
        /\ compiled' = IF handled.compiled
                       THEN LET entry == handled.validatorCache[Len(handled.validatorCache)]
                            IN  Append(compiled, [key |-> entry[1],
                                                  schema |-> entry[2].compiledFrom,
                                                  id |-> entry[2].id])
                       ELSE compiled
        /\ UNCHANGED <<currentSpec, cache, now, calls, loaderCalls, loadedOk, written, sampled>>

\* the generate_curl tool
HandleGenerateCurl(input) ==
    /\ last' = [op |-> "generate_curl", input |-> input,
                out |-> handleGenerateCurl(currentSpec, input)]
    /\ UNCHANGED <<currentSpec, cache, now, calls, loaderCalls, loadedOk, written, sampled>>
    /\ UNCHANGED validatorVars

BodyNext ==
    \/ \E path \in BodyPaths, method \in BodyMethodsAsked, includeOptional \in BOOLEAN :
          HandleGenerateSample([path |-> path, method |-> method,
                                includeOptional |-> includeOptional])
    \/ \E path \in BodyPaths, method \in BodyMethodsAsked, payload \in Payloads :
          HandleValidatePayload([path |-> path, method |-> method, payload |-> payload])
    \/ \E path \in BodyPaths, method \in BodyMethodsAsked, options \in CurlOptions :
          HandleGenerateCurl([path |-> path, method |-> method] @@ options)

BodySpec == BodyInit /\ [][BodyNext]_vars

\* the tool was asked about an endpoint of the active spec that has no
\* request body
AskedWithoutBody ==
    /\ last.op \in {"generate_sample", "validate_payload", "generate_curl"}
    /\ LET endpoint == getEndpoint(currentSpec, last.input.path, last.input.method)
       IN  ~Threw(endpoint) /\ ~Has(endpoint.ret, "requestBody")

RespondsNoRequestBody(response) ==
    /\ ~response.success
    /\ Has(response, "code")
    /\ response.code = "NO_REQUEST_BODY"

-----------------------------------------------------------------------------
(* Loads that fail: the service is asked to load from sources the load      *)
(* collaborator rejects or may fail on.                                     *)

\* the load_spec tool, given how specService.loadSpec ended
handleLoadSpec(out) ==
    IF Threw(out) THEN CatchError(out.threw)
    ELSE successResponse([title |-> out.ret.info.title,
                          version |-> out.ret.info.version,
                          openApiVersion |-> out.ret.version,
                          endpointCount |-> Len(out.ret.endpoints),
                          schemaCount |-> Len(out.ret.schemas),
                          source |-> out.ret.source])

FailNext ==
    \/ \E options \in FailingOptions : LoadStart(options)
    \/ \E call \in calls : LoadResolve(call, DocPets)
    \/ \E call \in calls : \E error \in LoaderErrors(call.options) : LoadReject(call, error)

FailSpec == Init /\ [][FailNext]_vars

\* a load from a source ended with an error
LoadFailed ==
    /\ last.op = "loadSpec"
    /\ Threw(last.out)
    /\ RequestedSource(last.options) # <<>>

\* the error is a SpecLoadError whose context names the source
NamesSource(error, source) ==
    /\ error.name = "OpenAPIError"
    /\ Has(error, "code") /\ error.code = "SPEC_LOAD_ERROR"
    /\ Has(error, "context")
    /\ \E f \in DOMAIN error.context : error.context[f] = source

\* C19: a load that fails ends with a SpecLoadError whose context names the
\* attempted source, and the load_spec tool answers success false with the
\* code SPEC_LOAD_ERROR and that context, whatever made the load fail.
C19_LoadFailuresAreSpecLoadErrors ==
    LoadFailed =>
        /\ NamesSource(last.out.threw, RequestedSource(last.options)[1])
        /\ LET response == handleLoadSpec(last.out)
           IN  /\ ~response.success
               /\ Has(response, "code") /\ response.code = "SPEC_LOAD_ERROR"
               /\ Has(response, "context")
               /\ response.context = last.out.threw.context

-----------------------------------------------------------------------------
(* The list_endpoints tool, asked with every combination of filters about   *)
(* the spec the service holds.                                              *)

\* three endpoints, of which the only one tagged Users is deprecated
DocThree ==
    [openapi |-> "3.0.2",
     info |-> [title |-> "Three", version |-> "1"],
     paths |-> <<
        <<"/users",
          [get |-> [tags |-> <<"Users">>, deprecated |-> TRUE,
                    responses |-> <<<<"200", [description |-> "ok"]>>>>]]>>,
        <<"/pets",
          [post |-> [tags |-> <<"Pets", "Admin">>,
                     responses |-> <<<<"201", [description |-> "created"]>>>>],
           get |-> [tags |-> <<"Pets">>,
                    responses |-> <<<<"200", [description |-> "ok"]>>>>]]>>>>]

\* eight endpoints on three paths, the paths and the operations of each
\* path written in another order than the sorted one
DocMethods ==
    [openapi |-> "3.1.0",
     info |-> [title |-> "Methods", version |-> "1"],
     paths |-> <<
        <<"/pets/{id}",
          [delete |-> [tags |-> <<"Pets">>,
                       responses |-> <<<<"204", [description |-> "gone"]>>>>],
           put |-> [tags |-> <<"Pets">>,
                    responses |-> <<<<"200", [description |-> "ok"]>>>>],
           get |-> [tags |-> <<"Pets">>,
                    responses |-> <<<<"200", [description |-> "ok"]>>>>],
           patch |-> [tags |-> <<"Pets">>, deprecated |-> TRUE,
                      responses |-> <<<<"200", [description |-> "ok"]>>>>]]>>,
        <<"/Pets",
          [trace |-> [responses |-> <<<<"200", [description |-> "ok"]>>>>],
           head |-> [tags |-> <<"Pets">>,
                     responses |-> <<<<"200", [description |-> "ok"]>>>>],
           options |-> [responses |-> <<<<"200", [description |-> "ok"]>>>>]]>>,
        <<"/pets",
          [post |-> [tags |-> <<"Pets", "Admin">>,
                     responses |-> <<<<"201", [description |-> "created"]>>>>]]>>>>]

ListDocs == {DocPets, DocUsers, DocThree, DocMethods}

\* the inputs: each filter and the limit given or not
ListInputs ==
    {Opt(tag # <<>>, "tag", IF tag # <<>> THEN tag[1] ELSE "")
     @@ Opt(method # <<>>, "method", IF method # <<>> THEN method[1] ELSE "")
     @@ Opt(deprecated # <<>>, "deprecated", deprecated # <<>> /\ deprecated[1])
     @@ Opt(limit # <<>>, "limit", IF limit # <<>> THEN limit[1] ELSE 0) :
        tag \in {<<>>, <<"Users">>, <<"Pets">>, <<"Admin">>, <<"">>},
        method \in {<<>>, <<"get">>, <<"put">>},
        deprecated \in {<<>>, <<TRUE>>, <<FALSE>>},
        limit \in {<<>>, <<1>>, <<2>>}}

ListInit ==
    /\ \E document \in ListDocs :
        LET spec == buildParsedSpec(document, FileSource, 0, 1)
        IN  /\ currentSpec = spec
            /\ cache = CacheSet(<<>>, CACHE_KEY, spec, <<>>, 0)
            /\ written = Written(<<>>, CACHE_KEY, spec, <<>>, 0)
            /\ last = [op |-> "loadSpec", options |-> [filePath |-> FileSource], seq |-> 1,
                       before |-> JsNull, out |-> Return(spec)]
    /\ now = 0
    /\ calls = {}
    /\ loaderCalls = 1
    /\ loadedOk = TRUE
    /\ sampled = JsNull
    /\ validatorCache = <<>>
    /\ compiled = <<>>

\* the list_endpoints tool
HandleListEndpoints(input) ==
    /\ last' = [op |-> "list_endpoints", input |-> input,
                out |-> handleListEndpoints(currentSpec, input)]
    /\ UNCHANGED <<currentSpec, cache, now, calls, loaderCalls, loadedOk, written, sampled>>
    /\ UNCHANGED validatorVars

ListNext == \E input \in ListInputs : HandleListEndpoints(input)

ListSpec == ListInit /\ [][ListNext]_vars

Listed == last.op = "list_endpoints" /\ last.out.success

\* the endpoint passes every filter the input gives; an empty tag counts as
\* not given
Satisfies(endpoint, input) ==
    /\ (Has(input, "tag") /\ input.tag # "") => input.tag \in Range(endpoint.tags)
    /\ Has(input, "method") => endpoint.method = input.method
    /\ (Has(input, "deprecated") /\ ~input.deprecated) => ~endpoint.deprecated

\* the scenario: a spec with three endpoints of which the only one tagged
\* Users is deprecated, asked for the Users endpoints that are not deprecated
Scenario ==
    LET all == MapValues(currentSpec.endpoints)
        users == {i \in 1..Len(all) : "Users" \in Range(all[i].tags)}
    IN  /\ Len(all) = 3
        /\ Cardinality(users) = 1
        /\ \A i \in users : all[i].deprecated
        /\ last.input = [tag |-> "Users", deprecated |-> FALSE]

-----------------------------------------------------------------------------
(* The order of the list list_endpoints returns.                            *)

\* the order of the methods among the endpoints of one path
SortedMethods == <<"GET", "POST", "PUT", "PATCH", "DELETE", "OPTIONS", "HEAD", "TRACE">>

MethodRank(method) == CHOOSE i \in 1..Len(SortedMethods) : SortedMethods[i] = method

\* endpoint a comes before endpoint b: by path, as localeCompare orders the
\* paths, then by method
ComesBefore(a, b) ==
    \/ localeCompare(a.path, b.path) < 0
    \/ a.path = b.path /\ MethodRank(a.method) < MethodRank(b.method)

-----------------------------------------------------------------------------
(* The sample of an array node.                                             *)

\* the maxArrayItems option a call is made with
MaxArrayItemsOf(options) ==
    IF Has(options, "maxArrayItems") THEN options.maxArrayItems
    ELSE DEFAULT_OPTIONS.maxArrayItems

\* C22: for an array node without example, default, const or enum, the
\* sample is the empty array when the node has no items; with items it has
\* exactly max(1, minItems) elements when minItems is given and exactly 1
\* otherwise, never more than maxArrayItems, each equal to the sample of
\* items.
C22_ArraySampleCount ==
    (Generated /\ last.schema \in ArraySchemas) =>
        LET schema == last.schema
            item == generateSample(schema.items, last.options, last.depth + 1)
        IN  IF ~Has(schema, "items") THEN last.out = JArr(<<>>)
            ELSE /\ Has(last.out, "arr")
                 /\ Len(last.out.arr) = IF Has(schema, "minItems")
                                        THEN Max(1, schema.minItems) ELSE 1
                 /\ Len(last.out.arr) <= MaxArrayItemsOf(last.options)
                 /\ \A i \in 1..Len(last.out.arr) : last.out.arr[i] = item

-----------------------------------------------------------------------------
(* The type emitter: openapi/typescript-generator.  A schema is a record as *)
(* for the sample generator; additionalProperties is a boolean, JBool, or a *)
(* schema.                                                                  *)

DEFAULT_OPTIONS_TS ==
    [interfaceName |-> "GeneratedType", exportKeyword |-> TRUE, includeComments |-> TRUE]

\* typeof v === "string" ? `"${v}"` : String(v)
Literal(v) == IF Has(v, "str") THEN "\"" \o v.str \o "\"" ELSE StringOf(v)

\* types.filter(Boolean)
FilterBoolean(types) == SelectSeq(types, LAMBDA type : type # "")

IdentifierStart == UpperLetters \o LowerLetters \o "_$"

\* /^[a-zA-Z_$][a-zA-Z0-9_$]*$/.test(propName) ? propName : `"${propName}"`
SafeName(propName) ==
    IF /\ propName # ""
       /\ IndexIn(CharAt(propName, 1), IdentifierStart) > 0
       /\ PrefixIn(propName, IdentifierStart \o Digits) = Len(propName)
    THEN propName
    ELSE "\"" \o propName \o "\""

\* schema.nullable ? " | null" : ""
NullableSuffix(schema) == IF Has(schema, "nullable") /\ schema.nullable THEN " | null" ELSE ""

\* the first of the statements of schemaTypeToTs that returns for a schema
TsRule(schema) ==
    IF HasEnum(schema) THEN "enum"
    ELSE IF Has(schema, "const") THEN "const"
    ELSE IF Has(schema, "allOf") /\ Len(schema.allOf) > 0 THEN "allOf"
    ELSE IF Has(schema, "oneOf") /\ Len(schema.oneOf) > 0 THEN "oneOf"
    ELSE IF Has(schema, "anyOf") /\ Len(schema.anyOf) > 0 THEN "anyOf"
    ELSE IF FirstType(schema) = <<>> THEN "default:"
    ELSE IF FirstType(schema)[1] \in {"string", "number", "integer", "boolean", "null",
                                      "array", "object"}
    THEN FirstType(schema)[1] \o ":"
    ELSE "default:"

RECURSIVE schemaTypeToTs(_)
RECURSIVE generateObjectType(_)
RECURSIVE schemaToTs(_, _, _)

schemaTypeToTs(schemaRef) ==
    LET schema == Deref(schemaRef)
        nullable == NullableSuffix(schema)
        rule == TsRule(schema)
        rendered(branches) ==
            FilterBoolean([i \in 1..Len(branches) |-> schemaToTs(branches[i], "", FALSE)])
        union(types) == IF Len(types) > 0 THEN "(" \o Join(types, " | ") \o ")" \o nullable
                        ELSE "unknown"
    IN  CASE rule = "enum" ->
                Join([i \in 1..Len(schema.enum) |-> Literal(schema.enum[i])], " | ") \o nullable
          [] rule = "const" -> Literal(schema.const)
          [] rule = "allOf" ->
                LET types == rendered(schema.allOf)
                IN  IF Len(types) > 0 THEN Join(types, " & ") \o nullable ELSE "unknown"
          [] rule = "oneOf" -> union(rendered(schema.oneOf))
          [] rule = "anyOf" -> union(rendered(schema.anyOf))
          [] rule = "string:" -> "string" \o nullable
          [] rule \in {"number:", "integer:"} -> "number" \o nullable
          [] rule = "boolean:" -> "boolean" \o nullable
          [] rule = "null:" -> "null"
          [] rule = "array:" ->
                IF Has(schema, "items")
                THEN schemaToTs(schema.items, "", FALSE) \o "[]" \o nullable
                ELSE "unknown[]" \o nullable
          [] rule = "object:" -> generateObjectType(schema) \o nullable
          [] rule = "default:" ->
                IF Has(schema, "properties") THEN generateObjectType(schema) \o nullable
                ELSE "unknown"

\* the inline object type
generateObjectType(schema) ==
    IF ~Has(schema, "properties") \/ Len(schema.properties) = 0
    THEN (IF Has(schema, "additionalProperties")
             /\ schema.additionalProperties # JBool(FALSE)
             /\ schema.additionalProperties # JBool(TRUE)
          THEN "Record<string, " \o schemaToTs(schema.additionalProperties, "", FALSE) \o ">"
          ELSE "Record<string, unknown>")
    ELSE LET entries == ObjectEntries(schema.properties)
             required == Range(OrElse(schema, "required", <<>>))
             lines == [i \in 1..Len(entries) |->
                          SafeName(entries[i][1])
                              \o (IF entries[i][1] \in required THEN "" ELSE "?")
                              \o ": " \o schemaToTs(entries[i][2], "", FALSE)]
         IN  "{ " \o Join(lines, "; ") \o " }"

RECURSIVE InterfaceLines(_, _, _)
\* the lines of the properties of an interface
InterfaceLines(entries, required, includeComments) ==
    IF entries = <<>> THEN <<>>
    ELSE LET propName == Head(entries)[1]
             ps == Deref(Head(entries)[2])
         IN  (IF includeComments /\ Truthy(ps, "description")
              THEN <<"  /** " \o ps.description \o " */">> ELSE <<>>)
             \o <<"  " \o SafeName(propName)
                       \o (IF propName \in required THEN "" ELSE "?")
                       \o ": " \o schemaTypeToTs(ps) \o ";">>
             \o InterfaceLines(Tail(entries), required, includeComments)

\* a full interface with comments
generateInterface(schema, name, includeComments) ==
    LET comment == IF includeComments /\ Truthy(schema, "description")
                   THEN <<"/**", " * " \o schema.description, " */">>
                   ELSE <<>>
        lines == comment
                 \o <<"interface " \o name \o " {">>
                 \o InterfaceLines(ObjectEntries(OrElse(schema, "properties", <<>>)),
                                   Range(OrElse(schema, "required", <<>>)), includeComments)
                 \o <<"}">>
    IN  Join(lines, "\n")

\* generateInterface is called without its third argument: includeComments
\* is true
schemaToTs(schemaRef, name, asInterface) ==
    LET schema == Deref(schemaRef)
    IN  IF DOMAIN schema = {}
        THEN (IF asInterface THEN "interface " \o name \o " {}" ELSE "unknown")
        ELSE IF ~asInterface THEN schemaTypeToTs(schema)
        ELSE IF Has(schema, "properties") THEN generateInterface(schema, name, TRUE)
        ELSE "type " \o name \o " = " \o schemaTypeToTs(schema) \o ";"

\* result.replace(/^(interface|type)/, "export $1")
generateTypeScript(schema, options) ==
    LET opts == options @@ DEFAULT_OPTIONS_TS
        result == schemaToTs(schema, opts.interfaceName, TRUE)
    IN  IF opts.exportKeyword /\ (startsWith(result, "interface") \/ startsWith(result, "type"))
        THEN "export " \o result
        ELSE result
-----------------------------------------------------------------------------
(* The type emitter applied to schemas: nested, as schemaToTs(schema, "",   *)
(* false) renders a schema inside another, and at the top level, as         *)
(* generateTypeScript renders the root of a declaration.                    *)

TsObject ==
    [type |-> "object", required |-> <<"id">>,
     properties |-> <<<<"id", [type |-> "integer"]>>,
                      <<"full-name", [type |-> "string", description |-> "the name"]>>>>]

\* schemas without composition, one for each rule of the emitter
TsLeaves ==
    {EmptyObject,
     [type |-> "string"],
     [type |-> "integer"],
     [type |-> "boolean"],
     [type |-> "null"],
     [types |-> <<"number", "null">>],
     [enum |-> <<JStr("a"), JNum(1), JsNull>>],
     [const |-> JStr("a")],
     [const |-> JNum(7), type |-> "integer"],
     [type |-> "array"],
     [type |-> "array", items |-> [type |-> "string"]],
     [type |-> "object"],
     [type |-> "object", additionalProperties |-> JBool(TRUE)],
     [type |-> "object", additionalProperties |-> [type |-> "number"]],
     [properties |-> <<<<"tag", [type |-> "string"]>>>>],
     TsObject}

TsBranches ==
    {[type |-> "string"],
     [type |-> "array", items |-> [type |-> "integer"]],
     [type |-> "object", required |-> <<"kind">>,
      properties |-> <<<<"kind", [const |-> JStr("cat")]>>>>],
     EmptyObject}

MaxTsBranches == 2

TsBranchLists == UNION {[1..n -> TsBranches] : n \in 1..MaxTsBranches}

\* schemas with composition: one keyword, two keywords, and a keyword on an
\* object with properties
TsCompositions ==
    {base @@ co :
        base \in {EmptyObject, [type |-> "object"], TsObject},
        co \in {[allOf |-> list] : list \in TsBranchLists}
                \cup {[oneOf |-> list] : list \in TsBranchLists}
                \cup {[anyOf |-> list] : list \in TsBranchLists}
                \cup {[allOf |-> <<b>>, oneOf |-> <<c, b>>] : b, c \in TsBranches}
                \cup {[oneOf |-> <<b>>, anyOf |-> <<c, b>>] : b, c \in TsBranches}}

TsSchemas ==
    {nu @@ de @@ schema :
        nu \in {EmptyObject, [nullable |-> TRUE], [nullable |-> FALSE]},
        de \in {EmptyObject, [description |-> "A pet"]},
        schema \in TsLeaves}
    \cup {nu @@ schema : nu \in {EmptyObject, [nullable |-> TRUE]}, schema \in TsCompositions}

TsOptions ==
    {EmptyObject, [interfaceName |-> "Pet"], [interfaceName |-> "Pet", exportKeyword |-> TRUE],
     [exportKeyword |-> FALSE], [includeComments |-> FALSE]}

TsInit ==
    /\ currentSpec = JsNull
    /\ cache = <<>>
    /\ now = 0
    /\ calls = {}
    /\ loaderCalls = 0
    /\ loadedOk = FALSE
    /\ written = <<>>
    /\ sampled = JsNull
    /\ \E schema \in TsSchemas, options \in TsOptions :
          last = [op |-> "call", schema |-> schema, options |-> options]
    /\ validatorCache = <<>>
    /\ compiled = <<>>

\* schemaToTs(schema, "", false): the schema rendered inside another
SchemaToTs ==
    /\ last.op = "call"
    /\ last.options = EmptyObject
    /\ last' = [last EXCEPT !.op = "schemaToTs"] @@ [out |-> schemaToTs(last.schema, "", FALSE)]
    /\ UNCHANGED <<currentSpec, cache, now, calls, loaderCalls, loadedOk, written, sampled>>
    /\ UNCHANGED validatorVars

\* generateTypeScript(schema, options)
GenerateTypeScript ==
    /\ last.op = "call"
    /\ last' = [last EXCEPT !.op = "generateTypeScript"]
                  @@ [out |-> generateTypeScript(last.schema, last.options)]
    /\ UNCHANGED <<currentSpec, cache, now, calls, loaderCalls, loadedOk, written, sampled>>
    /\ UNCHANGED validatorVars

TsNext == SchemaToTs \/ GenerateTypeScript

TsSpec == TsInit /\ [][TsNext]_vars

Nested == last.op = "schemaToTs"

TopLevel == last.op = "generateTypeScript"

-----------------------------------------------------------------------------
(* Properties of the type emitter.                                          *)

\* the schema lists branches under the composition keyword
Composes(schema, keyword) == Has(schema, keyword) /\ Len(schema[keyword]) > 0

\* the renderings of the branches, in order
BranchTypes(branches) == [i \in 1..Len(branches) |-> schemaToTs(branches[i], "", FALSE)]

UnionOf(branches) == "(" \o Join(BranchTypes(branches), " | ") \o ")"

IntersectionOf(branches) == Join(BranchTypes(branches), " & ")

\* C23: for a schema without enum and const, rendered nested or as the root
\* of a top-level declaration, the rendering holds the intersection of the
\* renderings of all allOf branches and the union of the renderings of all
\* oneOf and of all anyOf branches, in order: no branch is dropped.
C23_CompositionKeepsEveryBranch ==
    ((Nested \/ TopLevel) /\ ~Has(last.schema, "enum") /\ ~Has(last.schema, "const")) =>
        /\ Composes(last.schema, "allOf") =>
              includes(last.out, IntersectionOf(last.schema.allOf))
        /\ Composes(last.schema, "oneOf") => includes(last.out, UnionOf(last.schema.oneOf))
        /\ Composes(last.schema, "anyOf") => includes(last.out, UnionOf(last.schema.anyOf))

\* the schema without its nullable flag
NonNullable(schema) == [f \in (DOMAIN schema) \ {"nullable"} |-> schema[f]]

\* C24: for a non-empty schema with nullable true the emitted type is the
\* rendering of the schema without the flag, united with null: nested it is
\* that rendering followed by | null, at the top level it is a declaration
\* of that union.
C24_NullableUnitesWithNull ==
    ((Nested \/ TopLevel) /\ last.schema # EmptyObject
        /\ Has(last.schema, "nullable") /\ last.schema.nullable) =>
        LET plain == NonNullable(last.schema)
            declared == generateTypeScript(plain, last.options)
        IN  IF Nested THEN last.out = schemaToTs(plain, "", FALSE) \o " | null"
            ELSE IF endsWith(declared, ";")
            THEN last.out = SubSeq(declared, 1, Len(declared) - 1) \o " | null;"
            ELSE endsWith(last.out, " | null;")

\* C25: generateTypeScript with exportKeyword true, or left at its default,
\* returns export interface <name> {...} for a root with properties and
\* export type <name> = ...; for any other root.
C25_DeclarationIsExported ==
    (TopLevel /\ OrElse(last.options, "exportKeyword", TRUE)) =>
        LET name == OrElse(last.options, "interfaceName", "GeneratedType")
        IN  IF Has(last.schema, "properties")
            THEN /\ startsWith(last.out, "export interface " \o name \o " {")
                 /\ endsWith(last.out, "}")
            ELSE /\ startsWith(last.out, "export type " \o name \o " = ")
                 /\ endsWith(last.out, ";")

-----------------------------------------------------------------------------
(* The recursion of the type emitter, call by call.  last.stack holds one   *)
(* frame for each schema whose rendering has begun and not ended: the       *)
(* schema, whether it is rendered as the root of a declaration, and pc, the *)
(* next of the subschemas it renders.  The engine's call stack holds        *)
(* MaxStack frames; a call beyond it throws a RangeError.                   *)

MaxStack == 5

\* the values of the properties, in the order of Object.entries
PropertySchemas(schema) ==
    LET entries == ObjectEntries(OrElse(schema, "properties", <<>>))
    IN  [i \in 1..Len(entries) |-> entries[i][2]]

\* the subschemas generateObjectType renders
RenderedOfObject(schema) ==
    IF PropertySchemas(schema) # <<>> THEN PropertySchemas(schema)
    ELSE IF Has(schema, "additionalProperties")
            /\ schema.additionalProperties \notin {JBool(TRUE), JBool(FALSE)}
    THEN <<schema.additionalProperties>>
    ELSE <<>>

\* the subschemas that schemaToTs renders for a schema, in the order of the
\* calls: those of schemaTypeToTs and generateObjectType and, for the root
\* of a declaration with properties, those of generateInterface
Rendered(schemaRef, asInterface) ==
    LET schema == Deref(schemaRef)
        rule == TsRule(schema)
        ofType == CASE rule \in {"allOf", "oneOf", "anyOf"} -> schema[rule]
                    [] rule = "array:" ->
                          IF Has(schema, "items") THEN <<schema.items>> ELSE <<>>
                    [] rule = "object:" -> RenderedOfObject(schema)
                    [] rule = "default:" ->
                          IF Has(schema, "properties") THEN RenderedOfObject(schema)
                          ELSE <<>>
                    [] OTHER -> <<>>
    IN  IF DOMAIN schema = {} THEN <<>>
        ELSE ofType \o (IF asInterface /\ Has(schema, "properties")
                        THEN PropertySchemas(schema) ELSE <<>>)

\* a schema three levels deep
TsDeep ==
    [type |-> "object", required |-> <<"items">>,
     properties |-> <<<<"items", [type |-> "array",
                                  items |-> [oneOf |-> <<[type |-> "string"], TsObject>>]]>>,
                      <<"extra", [type |-> "object",
                                  additionalProperties |-> [type |-> "boolean"]]>>>>]

\* the schemas emitted: those without composition, some with, and the
\* schemas that refer to themselves
EmitRoots ==
    TsLeaves
    \cup {TsDeep, [enum |-> <<JStr("a")>>, nullable |-> TRUE]}
    \cup {[oneOf |-> <<[type |-> "string"], TsObject>>],
          [type |-> "object", allOf |-> <<TsObject, EmptyObject>>]}
    \cup {[ptr |-> name] : name \in DOMAIN SchemaHeap}

\* every subschema of a schema: the properties, items, a schema under
\* additionalProperties, and the branches of allOf, oneOf and anyOf
Parts(schemaRef) ==
    LET schema == Deref(schemaRef)
    IN  Range(PropertySchemas(schema))
        \cup (IF Has(schema, "items") THEN {schema.items} ELSE {})
        \cup (IF Has(schema, "additionalProperties")
              THEN {schema.additionalProperties} \ {JBool(TRUE), JBool(FALSE)} ELSE {})
        \cup Range(OrElse(schema, "allOf", <<>>))
        \cup Range(OrElse(schema, "oneOf", <<>>))
        \cup Range(OrElse(schema, "anyOf", <<>>))

RECURSIVE Closure(_, _, _)
\* the schemas reached from frontier by Step(_), added to seen
Closure(Step(_), frontier, seen) ==
    LET next == UNION {Step(s) : s \in frontier} \ seen
    IN  IF next = {} THEN seen ELSE Closure(Step, next, seen \cup next)

PartsBelow(schema) == Closure(Parts, Parts(schema), Parts(schema))

RenderedStep(schema) == Range(Rendered(schema, FALSE))

RenderedBelow(schema, asInterface) ==
    Closure(RenderedStep, Range(Rendered(schema, asInterface)),
            Range(Rendered(schema, asInterface)))

\* no schema at or below the root has itself among its subschemas
Acyclic(root) == \A s \in PartsBelow(root) \cup {root} : s \notin PartsBelow(s)

\* the root has itself among its subschemas
RefersBack(root) == root \in PartsBelow(root)

\* rendering the root renders a schema whose rendering renders itself
RendersItself(root) ==
    \/ root \in RenderedBelow(root, TRUE)
    \/ \E s \in RenderedBelow(root, TRUE) : s \in RenderedBelow(s, FALSE)

\* generateSample(schema), tabulated over the roots
Samples == [root \in EmitRoots |-> generateSample(root, EmptyObject, 0)]

EmitInit ==
    /\ currentSpec = JsNull
    /\ cache = <<>>
    /\ now = 0
    /\ calls = {}
    /\ loaderCalls = 0
    /\ loadedOk = FALSE
    /\ written = <<>>
    /\ sampled = JsNull
    /\ \E root \in EmitRoots :
          last = [op |-> "schemaToTs", schema |-> root,
                  stack |-> <<[schema |-> root, asInterface |-> TRUE, pc |-> 1]>>]
    /\ validatorCache = <<>>
    /\ compiled = <<>>

Emitting == last.op = "schemaToTs"

Top == last.stack[Len(last.stack)]

\* a rendering that stops descending below the third frame
PendingGuarded ==
    /\ Len(last.stack) <= 3
    /\ Top.pc <= Len(Rendered(Top.schema, Top.asInterface))

\* the rendering on top of the stack has a subschema left to render
Pending == Top.pc <= Len(Rendered(Top.schema, Top.asInterface))

\* the call that renders the next subschema
EmitCall ==
    /\ Emitting /\ Pending
    /\ Len(last.stack) < MaxStack
    /\ last' = [last EXCEPT !.stack =
                   Append(@, [schema |-> Rendered(Top.schema, Top.asInterface)[Top.pc],
                              asInterface |-> FALSE, pc |-> 1])]
    /\ UNCHANGED <<currentSpec, cache, now, calls, loaderCalls, loadedOk, written, sampled>>
    /\ UNCHANGED validatorVars

\* the call for which the engine has no frame left
EmitOverflow ==
    /\ Emitting /\ Pending
    /\ Len(last.stack) = MaxStack
    /\ last' = [op |-> "RangeError", schema |-> last.schema]
    /\ UNCHANGED <<currentSpec, cache, now, calls, loaderCalls, loadedOk, written, sampled>>
    /\ UNCHANGED validatorVars

\* the return of the rendering on top of the stack; the return of the root
\* is the return of generateTypeScript(schema)
EmitReturn ==
    /\ Emitting /\ ~Pending
    /\ last' = IF Len(last.stack) = 1
               THEN [op |-> "returned", schema |-> last.schema]
               ELSE LET below == Len(last.stack) - 1
                    IN  [last EXCEPT !.stack =
                            [SubSeq(@, 1, below) EXCEPT ![below].pc = @ + 1]]
    /\ UNCHANGED <<currentSpec, cache, now, calls, loaderCalls, loadedOk, written, sampled>>
    /\ UNCHANGED validatorVars

\* generateSample(schema) on the schema being emitted
SampleEmitted ==
    /\ IsNull(sampled)
    /\ sampled' = [schema |-> last.schema, options |-> EmptyObject,
                   out |-> Samples[last.schema]]
    /\ UNCHANGED <<currentSpec, cache, now, calls, loaderCalls, loadedOk, written, last>>
    /\ UNCHANGED validatorVars

EmitNext == EmitCall \/ EmitOverflow \/ EmitReturn \/ SampleEmitted

\* both functions are synchronous: a call that has begun runs on
EmitSpec ==
    /\ EmitInit
    /\ [][EmitNext]_vars
    /\ WF_vars(EmitCall \/ EmitOverflow \/ EmitReturn)
    /\ WF_vars(SampleEmitted)

Returned == last.op = "returned"

RangeError == last.op = "RangeError"

-----------------------------------------------------------------------------
(* The cache entry and the active spec *)

\* the spec cache holds an entry under the fixed key, expired or not
HoldsEntry == CACHE_KEY \in DOMAIN cache

\* C27: in every state a query can observe (before, between and after the
\* steps of loads, loads in flight included), an entry of the spec cache
\* under CACHE_KEY holds the very spec that is the active one: the cache
\* write and the swap of a load, and the two resets of clear(), are single
\* steps.
C27_CachedSpecIsActiveSpec ==
    HoldsEntry => currentSpec = cache[CACHE_KEY].spec

\* a load has just written the cache and swapped the active spec while
\* another load is still in flight
C27_Witness ==
    /\ HoldsEntry
    /\ calls # {}
    /\ last.op = "loadSpec"
    /\ last.seq > 0
    /\ ~Threw(last.out)
    /\ currentSpec = last.out.ret
    /\ currentSpec = cache[CACHE_KEY].spec

-----------------------------------------------------------------------------
(* The active spec and the time to live of the cache *)

\* the last spec a load has cached since the start or the last clear()
LastLoaded == written[CACHE_KEY].spec

\* the time to live of the last cache write has elapsed
TtlElapsed == CACHE_KEY \in DOMAIN written /\ now > ExpiryOf(written[CACHE_KEY])

\* C28: the active spec does not expire with the cache.  Once the time to
\* live of the cached spec has elapsed the accessors still serve the spec
\* last loaded, and passing time changes nothing they serve; the active spec
\* changes only by clear() or by a loadSpec that succeeds; a loadSpec for the
\* same source after the expiry invokes the load collaborator again, and if
\* that invocation fails the spec loaded before is still the active one.
C28_ActiveSpecOutlivesCacheEntry ==
    /\ [](TtlElapsed =>
            /\ isLoaded(currentSpec)
            /\ getSpec(currentSpec) = Return(LastLoaded)
            /\ getEndpoints(currentSpec) = Return(LastLoaded.endpoints)
            /\ getServers(currentSpec) = Return(LastLoaded.servers))
    /\ [][\A d \in TickSteps : Tick(d) => getSpec(currentSpec') = getSpec(currentSpec)]_vars
    /\ [][currentSpec' # currentSpec =>
            \/ last'.op = "clear" /\ IsNull(currentSpec')
            \/ last'.op = "loadSpec" /\ last'.out = Return(currentSpec')]_vars
    /\ [][\A options \in LoadOptions :
            (/\ TtlElapsed
             /\ RequestedSource(options) = <<LastLoaded.source>>
             /\ LoadStart(options)) =>
                /\ loaderCalls' = loaderCalls + 1
                /\ \E call \in calls' \ calls : call.options = options
                /\ CACHE_KEY \notin DOMAIN cache'
                /\ currentSpec' = LastLoaded]_vars
    /\ [][\A call \in calls :
            \A error \in LoaderErrors(call.options) :
                (TtlElapsed /\ LoadReject(call, error)) =>
                    /\ getSpec(currentSpec') = Return(LastLoaded)
                    /\ written' = written]_vars

\* the spec was loaded, its time to live elapsed, a loadSpec for the same
\* source called the load collaborator again and failed, and the accessors
\* still serve the spec
C28_Witness ==
    /\ TtlElapsed
    /\ last.op = "loadSpec"
    /\ Threw(last.out)
    /\ RequestedSource(last.options) = <<LastLoaded.source>>
    /\ loaderCalls = 2
    /\ CACHE_KEY \notin DOMAIN cache
    /\ getSpec(currentSpec) = Return(LastLoaded)

-----------------------------------------------------------------------------
(* The request body of an OpenAPI 2.0 operation *)

\* the parameters with location body that the document gives for an
\* endpoint at one level
BodyParams(document, endpoint, level) ==
    LET item == MapGet(document.paths, endpoint.path)
        params == IF level = "path" THEN OrElse(item, "parameters", <<>>)
                  ELSE OrElse(item[endpoint.method], "parameters", <<>>)
    IN  SelectSeq(params, LAMBDA p : p.in = "body")

\* the synthetic request body around a body parameter
WrappedBody(bodyParam) ==
    [required |-> OrElse(bodyParam, "required", FALSE),
     description |-> OrElse(bodyParam, "description", ""),
     content |-> <<<<"application/json", [schema |-> bodyParam.schema]>>>>]

\* C29: for an operation of an OpenAPI 2.0 document the request body of the
\* endpoint is the application/json media type around the schema of the
\* operation's body parameter; when the path item and the operation both
\* give a body parameter the operation's is used; without any body parameter
\* there is no request body; and no parameter of the endpoint has location
\* body.
C29_Swagger2BodyFromOperation ==
    (Built /\ isSwagger2(last.document)) =>
        \A n \in 1..Len(currentSpec.endpoints) :
            LET endpoint == currentSpec.endpoints[n][2]
                pathLevel == BodyParams(last.document, endpoint, "path")
                opLevel == BodyParams(last.document, endpoint, "operation")
            IN  /\ \A i \in 1..Len(endpoint.parameters) : endpoint.parameters[i].in # "body"
                /\ opLevel # <<>> =>
                      /\ Has(endpoint, "requestBody")
                      /\ endpoint.requestBody = WrappedBody(opLevel[1])
                /\ (opLevel = <<>> /\ pathLevel # <<>>) =>
                      /\ Has(endpoint, "requestBody")
                      /\ endpoint.requestBody = WrappedBody(pathLevel[1])
                /\ (opLevel = <<>> /\ pathLevel = <<>>) => ~Has(endpoint, "requestBody")

-----------------------------------------------------------------------------
(* The sample of an integer node and the bounds of the node *)

\* C30: for an integer node without example, default, const or enum, whose
\* minimum is not above its maximum when it has both, the sample is an
\* integer, not below the minimum when the node has one and not above the
\* maximum when the node has one, negative bounds included (the node being
\* within the depth limit of the call).
C30_IntegerSampleWithinBounds ==
    (/\ Generated
     /\ last.schema \in IntegerSchemas
     /\ last.depth <= MaxDepthOf(last.options)) =>
        /\ Has(last.out, "num")
        /\ last.out.num \in Int
        /\ Has(last.schema, "minimum") => last.out.num >= last.schema.minimum
        /\ Has(last.schema, "maximum") => last.out.num <= last.schema.maximum

====
